---------------------------- MODULE Spec2Model ----------------------------
(***************************************************************************)
(* Model of the clawdbot WeChat bridge.                                    *)
(*                                                                         *)
(*   Spec       the POST /wechat handler (routes/wechat.ts), the binding   *)
(*              store (services/redis.ts) and the forwarding dispatcher    *)
(*              (services/clawdbot-forwarder.ts), with several requests    *)
(*              interleaving at their await points.                        *)
(*   SpecToken  the platform token manager (services/wechat-token.ts) and  *)
(*              sendCustomerServiceMessage (services/wechat-message.ts),   *)
(*              with several callers sharing the store, and a clock.       *)
(*   SpecDispatch  GET and POST /wechat on requests kept as they arrived,  *)
(*              and the end of each forwarded POST.                        *)
(*   SpecCallback  the callback routes (routes/callback.ts) with           *)
(*              sendTextMessage (services/wechat-message.ts), next to an   *)
(*              unbind of the subject.                                     *)
(***************************************************************************)
EXTENDS Integers, Sequences, FiniteSets, TLC

VARIABLES
    bindings,   \* redis keys wechat:binding:<openId>: subject -> UserBinding or NoBinding
    req,        \* the POST /wechat requests: id -> handler state
    posts,      \* the HTTP POSTs the dispatcher issued: id -> sequence of POSTs
    now,        \* Math.floor(Date.now() / 1000)
    ticks,      \* number of clock steps taken
    cache,      \* redis key wechat:access_token
    lock,       \* redis key wechat:access_token:lock
    issued,     \* number of calls made to the credential-exchange endpoint
    caller,     \* the callers of the token manager and of the send API
    inbox,      \* the HTTP requests to /wechat that have arrived: id -> request
    settled,    \* how the POST of each forwarded request ended: id -> outcome
    cb,         \* the requests to the callback routes: id -> handler state
    purge,      \* what each forceRefreshToken call found when its DEL took effect
    envelope,   \* the POST doForward built last
    sig,        \* the last call of validateSignature next to generateSignature
    authToken,  \* plugin: config.authToken
    hook,       \* plugin: the POST /webhook requests: id -> handler and task state
    history,    \* the stream requests of U1 that were answered, oldest first
    service     \* plugin: the module variable `server`, the servers made, the calls

wechatVars == <<bindings, req, posts>>

tokenVars == <<now, ticks, cache, lock, issued, caller>>

dispatchVars == <<inbox, settled>>

callbackVars == <<cb>>

forceVars == <<purge>>

taskVars == <<envelope>>

signatureVars == <<sig>>

pluginVars == <<authToken, hook>>

asideVars == <<history, service>>

\* the state the bridge's routes and its token manager leave alone
besideVars == <<forceVars, taskVars, signatureVars, pluginVars, asideVars>>

vars == <<bindings, req, posts, now, ticks, cache, lock, issued, caller, inbox, settled, cb,
          purge, envelope, sig, authToken, hook, history,
          service>>

-----------------------------------------------------------------------------
(* Bounds and input sets *)

\* number of POST /wechat requests of one run (all may be in flight together)
MaxRequests == 2

Reqs == 1..MaxRequests

Subjects == {"U1", "U2"}

Null == "null"

\* the null a lookup returns for a subject without Binding
NoBinding == [endpoint |-> Null, token |-> Null]

\* the official account's id, the ToUserName of every inbound message
Account == "gh_account"

BaseUrl == "https://bridge.example"

WechatToken == "wxtoken"

E1 == "http://e1.example/webhook"
E2 == "http://e2.example/webhook"
BadUrl == "e1.example/webhook"

\* strings that `new URL(s)` accepts (absolute URLs)
AbsoluteUrls == {E1, E2}

\* A Content string is a sequence of lexemes: WS stands for one maximal run
\* of whitespace, every other lexeme for one maximal run of non-whitespace.
WS == " "

Contents == {
    <<"bind", WS, E1, WS, "T1">>,
    <<"BIND", WS, E2, WS, "T2">>,
    <<"bind", WS, BadUrl, WS, "T1">>,
    <<WS, "bind", WS, E1, WS, "T1">>,
    <<"unbind">>,
    <<WS, "Unbind", WS>>,
    <<"hello">>,
    <<>> }

-----------------------------------------------------------------------------
(* utils/signature.ts *)

\* SHA-1 hex digest, as an injective constructor
Sha1(s) == <<"sha1", s>>

\* the UTF-16 code units of the strings that occur as token, timestamp and
\* nonce
Units(s) == CASE s = "" -> <<>>
              [] s = "1700000000" -> <<49, 55, 48, 48, 48, 48, 48, 48, 48, 48>>
              [] s = "n1" -> <<110, 49>>
              [] s = "wxtoken" -> <<119, 120, 116, 111, 107, 101, 110>>
              [] s = "a" -> <<97>>
              [] s = "b" -> <<98>>
              [] s = "ab" -> <<97, 98>>
              [] s = "B" -> <<66>>

\* the order Array.prototype.sort() puts strings in: by code units, a proper
\* prefix first
RECURSIVE LexLeq(_, _)
LexLeq(u, v) ==
    IF u = <<>> THEN TRUE
    ELSE IF v = <<>> THEN FALSE
    ELSE IF u[1] # v[1] THEN u[1] < v[1]
    ELSE LexLeq(Tail(u), Tail(v))

Perms3(a, b, c) == {<<a, b, c>>, <<a, c, b>>, <<b, a, c>>,
                    <<b, c, a>>, <<c, a, b>>, <<c, b, a>>}

\* [a, b, c].sort(): the permutation of the three in ascending order
Sort3(a, b, c) ==
    CHOOSE p \in Perms3(a, b, c) :
        LexLeq(Units(p[1]), Units(p[2])) /\ LexLeq(Units(p[2]), Units(p[3]))

\* arr.join(''): the code units of the three strings one after the other
join(arr) == Units(arr[1]) \o Units(arr[2]) \o Units(arr[3])

generateSignature(token, timestamp, nonce) == Sha1(join(Sort3(token, timestamp, nonce)))

\* faulty variant: the three strings are hashed in the order given
validateSignature_unsorted(token, signature, timestamp, nonce) ==
    Sha1(join(<<token, timestamp, nonce>>)) = signature

validateSignature(token, signature, timestamp, nonce) ==
    Sha1(join(Sort3(token, timestamp, nonce))) = signature

\* a missing signature parameter (a missing timestamp or nonce is "")
NoSignature == <<>>

\* the query strings of the requests
Queries ==
    [signature : {generateSignature(WechatToken, "1700000000", "n1"), Sha1(<<120>>), NoSignature},
     timestamp : {"1700000000"},
     nonce : {"n1", ""}]

\* the strings given to the two functions as token, timestamp and nonce
SignatureStrings == {"", "a", "b", "ab", "B", "n1", "1700000000", "wxtoken"}

\* the signatures presented with them: the one generateSignature makes, the
\* one of the same token and timestamp with an empty nonce, the digest of
\* the three in the order given, the digest of another text, none
Presented(token, timestamp, nonce) ==
    {generateSignature(token, timestamp, nonce),
     generateSignature(token, timestamp, ""),
     Sha1(join(<<token, timestamp, nonce>>)),
     Sha1(<<120>>),
     NoSignature}

NoSig == [called |-> FALSE, token |-> "", timestamp |-> "", nonce |-> "",
          presented |-> NoSignature, generated |-> NoSignature,
          valid |-> FALSE, roundTrip |-> FALSE]

IdleSignature == sig = NoSig

\* validateSignature(token, presented, timestamp, nonce) is called, and next
\* to it validateSignature on what generateSignature makes of the same three;
\* one call in a run
Validate(token, timestamp, nonce, presented) ==
    /\ ~sig.called
    /\ sig' = [called |-> TRUE, token |-> token, timestamp |-> timestamp, nonce |-> nonce,
               presented |-> presented,
               generated |-> generateSignature(token, timestamp, nonce),
               valid |-> validateSignature(token, presented, timestamp, nonce),
               roundTrip |-> validateSignature(token,
                                 generateSignature(token, timestamp, nonce),
                                 timestamp, nonce)]
    /\ UNCHANGED <<wechatVars, tokenVars, dispatchVars, callbackVars,
                   forceVars, taskVars, pluginVars, asideVars>>

-----------------------------------------------------------------------------
(* utils/xml-parser.ts: the parsed message and the passive reply *)

NoMsg == [FromUserName |-> Null, ToUserName |-> Null, MsgType |-> Null,
          Event |-> Null, Content |-> <<>>]

TextMsgs == [FromUserName : Subjects, ToUserName : {Account}, MsgType : {"text"},
             Event : {Null}, Content : Contents]

OtherMsgs == [FromUserName : Subjects, ToUserName : {Account}, MsgType : {"image"},
              Event : {Null}, Content : {<<>>}]

EventMsgs == [FromUserName : Subjects, ToUserName : {Account}, MsgType : {"event"},
              Event : {"subscribe", "CLICK"}, Content : {<<>>}]

Messages == TextMsgs \cup OtherMsgs \cup EventMsgs

\* faulty variant: the envelope keeps the addresses of the inbound message
buildTextReply_sameAddresses(toUser, fromUser, kind, endpoint) ==
    [status |-> 200, type |-> "text/xml", ToUserName |-> fromUser,
     FromUserName |-> toUser, kind |-> kind, endpoint |-> endpoint]

\* buildTextReply(toUser, fromUser, content): the reply envelope; the content
\* is kept as the kind of text and the endpoint it names
buildTextReply(toUser, fromUser, kind, endpoint) ==
    [status |-> 200, type |-> "text/xml", ToUserName |-> toUser,
     FromUserName |-> fromUser, kind |-> kind, endpoint |-> endpoint]

PlainReply(status, kind) ==
    [status |-> status, type |-> "text/plain", ToUserName |-> Null,
     FromUserName |-> Null, kind |-> kind, endpoint |-> Null]

NoReply == PlainReply(0, "none")

-----------------------------------------------------------------------------
(* routes/wechat.ts: the command patterns *)

\* case folding of the lexemes (the i flag of the patterns)
Lower(w) == CASE w = "BIND" -> "bind"
              [] w = "Unbind" -> "unbind"
              [] OTHER -> w

\* BIND_REGEX = /^bind\s+(\S+)\s+(\S+)$/i against the whole, untrimmed content
BindMatch(c) ==
    /\ Len(c) = 5
    /\ Lower(c[1]) = "bind"
    /\ c[2] = WS /\ c[3] # WS /\ c[4] = WS /\ c[5] # WS

\* String.prototype.trim()
Trim(c) ==
    LET a == IF c # <<>> /\ Head(c) = WS THEN Tail(c) ELSE c
    IN  IF a # <<>> /\ a[Len(a)] = WS THEN SubSeq(a, 1, Len(a) - 1) ELSE a

\* UNBIND_REGEX = /^unbind$/i against the trimmed content
UnbindMatch(c) == Len(Trim(c)) = 1 /\ Lower(Trim(c)[1]) = "unbind"

-----------------------------------------------------------------------------
(* services/redis.ts *)

\* faulty variant: the two arguments stored in each other's field
setBinding_swapped(store, openId, endpoint, token) ==
    [store EXCEPT ![openId] = [endpoint |-> token, token |-> endpoint]]

\* faulty variant: the fields are written one by one, the token only when the
\* key holds none
setBinding_fieldwise(store, openId, endpoint, token) ==
    [store EXCEPT ![openId] =
        [endpoint |-> endpoint,
         token |-> IF @ = NoBinding THEN token ELSE @.token]]

\* setBinding: redis SET of the key of openId (createdAt is left out)
setBinding(store, openId, endpoint, token) ==
    [store EXCEPT ![openId] = [endpoint |-> endpoint, token |-> token]]

\* faulty variant: the key of another subject is read
getBinding_otherKey(store, openId) == store[CHOOSE s \in Subjects : s # openId]

\* getBinding: redis GET of the key of openId
getBinding(store, openId) == store[openId]

\* deleteBinding: redis DEL of the key of openId
\* faulty variant: every key with the binding prefix is deleted
deleteBinding_allKeys(store, openId) == [s \in Subjects |-> NoBinding]

deleteBinding(store, openId) == [store EXCEPT ![openId] = NoBinding]

BindingValues == {[endpoint |-> E1, token |-> "T1"], [endpoint |-> E2, token |-> "T2"]}

-----------------------------------------------------------------------------
(* services/clawdbot-forwarder.ts *)

\* doForward: the one axios.post of a forwarded message
doForward(message, binding) ==
    [url |-> binding.endpoint,
     Authorization |-> <<"Bearer", binding.token>>,
     callback_url |-> <<BaseUrl, "callback", message.FromUserName>>,
     openid |-> message.FromUserName,
     msg_type |-> message.MsgType]

-----------------------------------------------------------------------------
(* routes/wechat.ts: POST /wechat, one action per stretch between awaits *)

IdleReq == [pc |-> "idle", msg |-> NoMsg, binding |-> NoBinding, reply |-> NoReply]

\* what request.body may be: a message under an <xml> root, a text the parser
\* throws on, or a text that parses to something without an <xml> root
Bodies == {"xml", "malformed", "noroot"}

Rejected(status, kind) ==
    [pc |-> "done", msg |-> NoMsg, binding |-> NoBinding, reply |-> PlainReply(status, kind)]

\* the requests whose body the handler goes on to read
Authentic(q) ==
    /\ q.signature # NoSignature /\ q.timestamp # "" /\ q.nonce # ""
    /\ validateSignature(WechatToken, q.signature, q.timestamp, q.nonce)

\* faulty variant: the body is parsed before the query string is looked at
Receive_parseFirst(r, q, body, m) ==
    /\ req[r].pc = "idle"
    /\ \A j \in Reqs : j < r => req[j].pc # "idle"
    /\ req' = [req EXCEPT ![r] =
         IF body = "malformed"
           THEN Rejected(400, "Invalid XML")
         ELSE IF q.signature = NoSignature \/ q.timestamp = "" \/ q.nonce = ""
           THEN Rejected(400, "Missing parameters")
         ELSE IF ~validateSignature(WechatToken, q.signature, q.timestamp, q.nonce)
           THEN Rejected(403, "Invalid signature")
         ELSE IF body = "noroot"
           THEN [Rejected(500, "Internal Server Error") EXCEPT !.reply.type = "application/json"]
         ELSE IF m.MsgType = "event"
           THEN IF m.Event = "subscribe"
                  THEN [pc |-> "done", msg |-> m, binding |-> NoBinding,
                        reply |-> buildTextReply(m.FromUserName, m.ToUserName, "welcome", Null)]
                  ELSE [pc |-> "done", msg |-> m, binding |-> NoBinding,
                        reply |-> PlainReply(200, "empty")]
         ELSE [pc |-> "getBinding", msg |-> m, binding |-> NoBinding, reply |-> NoReply]]
    /\ UNCHANGED <<bindings, posts>>
    /\ UNCHANGED <<tokenVars, dispatchVars, callbackVars, besideVars>>

\* lines 57-107: parameter check, signature check, parse, events, and the
\* call of getBinding (app.ts lines 44-50 answer an error thrown on the way)
Receive(r, q, body, m) ==
    /\ req[r].pc = "idle"
    /\ \A j \in Reqs : j < r => req[j].pc # "idle"
    /\ req' = [req EXCEPT ![r] =
         IF q.signature = NoSignature \/ q.timestamp = "" \/ q.nonce = ""
           THEN Rejected(400, "Missing parameters")
         ELSE IF ~validateSignature(WechatToken, q.signature, q.timestamp, q.nonce)
           THEN Rejected(403, "Invalid signature")
         ELSE IF body = "malformed"
           THEN Rejected(400, "Invalid XML")
         ELSE IF body = "noroot"
           \* message is undefined: line 80 throws, the error handler answers
           THEN [Rejected(500, "Internal Server Error") EXCEPT !.reply.type = "application/json"]
         ELSE IF m.MsgType = "event"
           THEN IF m.Event = "subscribe"
                  THEN [pc |-> "done", msg |-> m, binding |-> NoBinding,
                        reply |-> buildTextReply(m.FromUserName, m.ToUserName, "welcome", Null)]
                  ELSE [pc |-> "done", msg |-> m, binding |-> NoBinding,
                        reply |-> PlainReply(200, "empty")]
         ELSE [pc |-> "getBinding", msg |-> m, binding |-> NoBinding, reply |-> NoReply]]
    /\ UNCHANGED <<bindings, posts>>
    /\ UNCHANGED <<tokenVars, dispatchVars, callbackVars, besideVars>>

\* lines 109-163: what the handler does with the message once getBinding
\* has answered `binding`
\* faulty variant: an unbound sender's non-bind message falls through to the
\* forwarding
Route_forwardUnbound(m, binding) ==
    LET isText == m.MsgType = "text" /\ m.Content # <<>>
    IN  IF binding = NoBinding
          THEN IF isText /\ BindMatch(m.Content)
                 THEN IF m.Content[3] \notin AbsoluteUrls THEN "invalidUrl" ELSE "bind"
                 ELSE "forward"
          ELSE IF isText /\ UnbindMatch(m.Content) THEN "unbind" ELSE "forward"

\* faulty variant: the unbind command is recognised before the Binding is
\* looked at
Route_unbindFirst(m, binding) ==
    LET isText == m.MsgType = "text" /\ m.Content # <<>>
    IN  IF isText /\ UnbindMatch(m.Content) THEN "unbind"
        ELSE IF binding = NoBinding
          THEN IF isText /\ BindMatch(m.Content)
                 THEN IF m.Content[3] \notin AbsoluteUrls THEN "invalidUrl" ELSE "bind"
                 ELSE "onboarding"
          ELSE "forward"

Route(m, binding) ==
    LET isText == m.MsgType = "text" /\ m.Content # <<>>
    IN  IF binding = NoBinding
          THEN IF isText /\ BindMatch(m.Content)
                 THEN IF m.Content[3] \notin AbsoluteUrls THEN "invalidUrl" ELSE "bind"
                 ELSE "onboarding"
          ELSE IF isText /\ UnbindMatch(m.Content) THEN "unbind" ELSE "forward"

\* lines 107-169: getBinding resolves; the handler runs to its next await
\* (setBinding, deleteBinding) or to its reply
Lookup(r) ==
    /\ req[r].pc = "getBinding"
    /\ LET m == req[r].msg
           openId == m.FromUserName
           toUser == m.ToUserName
           binding == getBinding(bindings, openId)
           route == Route(m, binding)
       IN  /\ posts' = IF route = "forward"
                         THEN [posts EXCEPT ![r] = Append(@, doForward(m, binding))]
                         ELSE posts
           /\ req' = [req EXCEPT
                ![r].binding = binding,
                ![r].pc = CASE route = "bind" -> "setBinding"
                            [] route = "unbind" -> "deleteBinding"
                            [] OTHER -> "done",
                ![r].reply = CASE route = "invalidUrl" ->
                                    buildTextReply(openId, toUser, "invalidUrl", Null)
                               [] route = "onboarding" ->
                                    buildTextReply(openId, toUser, "onboarding", Null)
                               [] route = "forward" ->
                                    buildTextReply(openId, toUser, "processing", Null)
                               [] OTHER -> NoReply]
    /\ UNCHANGED bindings
    /\ UNCHANGED <<tokenVars, dispatchVars, callbackVars, besideVars>>

\* lines 125-134: setBinding resolves, the bind confirmation is sent
Bind(r) ==
    /\ req[r].pc = "setBinding"
    /\ LET m == req[r].msg
       IN  /\ bindings' = setBinding(bindings, m.FromUserName, m.Content[3], m.Content[5])
           /\ req' = [req EXCEPT ![r].pc = "done",
                ![r].reply = buildTextReply(m.FromUserName, m.ToUserName, "bindOk", m.Content[3])]
    /\ UNCHANGED posts
    /\ UNCHANGED <<tokenVars, dispatchVars, callbackVars, besideVars>>

\* lines 153-158: deleteBinding resolves, the unbind confirmation is sent
Unbind(r) ==
    /\ req[r].pc = "deleteBinding"
    /\ LET m == req[r].msg
       IN  /\ bindings' = deleteBinding(bindings, m.FromUserName)
           /\ req' = [req EXCEPT ![r].pc = "done",
                ![r].reply = buildTextReply(m.FromUserName, m.ToUserName, "unbindOk", Null)]
    /\ UNCHANGED posts
    /\ UNCHANGED <<tokenVars, dispatchVars, callbackVars, besideVars>>

\* The store is durable: the service starts with whatever Bindings earlier
\* bind commands left in it.
InitWechat ==
    /\ bindings \in [Subjects -> BindingValues \cup {NoBinding}]
    /\ req = [r \in Reqs |-> IdleReq]
    /\ posts = [r \in Reqs |-> <<>>]

-----------------------------------------------------------------------------
(* routes/wechat.ts: GET /wechat, and the requests on their way to the      *)
(* handlers                                                                 *)

\* the echostr parameter: a challenge, the empty string, or none at all
Echostrs == {"echo-8271", "", Null}

NoRequest ==
    [method |-> "none", query |-> [signature |-> NoSignature, timestamp |-> "", nonce |-> ""],
     echostr |-> Null, body |-> "none", msg |-> NoMsg]

\* the requests that arrive in a run of the dispatch scenario
Inbound == {1, 2}

\* the messages of the dispatch scenario
DispatchMessages ==
    {m \in Messages :
        m.Content \in {<<"hello">>, <<"unbind">>, <<"bind", WS, E1, WS, "T1">>, <<>>}}

\* an HTTP request reaches the server; its handler has not run yet
Arrive(r, method, q, echostr, body, m) ==
    /\ inbox[r] = NoRequest
    /\ \A j \in Reqs : j < r => inbox[j] # NoRequest
    /\ inbox' = [inbox EXCEPT ![r] = [method |-> method, query |-> q, echostr |-> echostr,
                                      body |-> body, msg |-> m]]
    /\ UNCHANGED settled
    /\ UNCHANGED <<wechatVars, tokenVars, callbackVars, besideVars>>

\* the POST /wechat handler is run on an arrived request
Accept(r) ==
    /\ inbox[r].method = "POST"
    /\ Receive(r, inbox[r].query, inbox[r].body, inbox[r].msg)

\* lines 29-44: the answer of GET /wechat (the text sent is kept in `kind`)
handshake(q, echostr) ==
    IF q.signature = NoSignature \/ q.timestamp = "" \/ q.nonce = ""
      THEN PlainReply(400, "Missing parameters")
    ELSE IF /\ validateSignature(WechatToken, q.signature, q.timestamp, q.nonce)
            /\ echostr # Null /\ echostr # ""
      THEN PlainReply(200, echostr)
    ELSE PlainReply(403, "Invalid signature")

\* the GET /wechat handler is run on an arrived request
Handshake(r) ==
    /\ inbox[r].method = "GET"
    /\ req[r].pc = "idle"
    /\ \A j \in Reqs : j < r => req[j].pc # "idle"
    /\ req' = [req EXCEPT ![r] = [pc |-> "done", msg |-> NoMsg, binding |-> NoBinding,
                                  reply |-> handshake(inbox[r].query, inbox[r].echostr)]]
    /\ UNCHANGED <<bindings, posts>>
    /\ UNCHANGED <<tokenVars, dispatchVars, callbackVars, besideVars>>

-----------------------------------------------------------------------------
(* services/clawdbot-forwarder.ts: the end of a dispatch *)

\* how the axios.post of doForward ends: a 2xx answer, another status, a
\* network error, or no answer within the 10 s timeout
ForwardOutcomes == {"2xx", "non2xx", "network", "timeout"}

NoOutcome == [outcome |-> "none", log |-> "none"]

\* request r has issued its POST and the POST has not ended
ForwardPending(r) == posts[r] # <<>> /\ settled[r] = NoOutcome

\* faulty variant: a failed dispatch turns the inbound request into an error
ForwardSettles_failsRequest(r, outcome) ==
    /\ ForwardPending(r)
    /\ settled' = [settled EXCEPT ![r] =
         [outcome |-> outcome, log |-> IF outcome = "2xx" THEN "status" ELSE "error"]]
    /\ req' = [req EXCEPT ![r].reply =
         IF outcome = "2xx" THEN @ ELSE PlainReply(500, "Internal Server Error")]
    /\ UNCHANGED <<bindings, posts, inbox>>
    /\ UNCHANGED <<tokenVars, callbackVars, besideVars>>

\* faulty variant: a POST that did not end with a 2xx answer is issued again
ForwardSettles_retries(r, outcome) ==
    /\ ForwardPending(r)
    /\ IF outcome # "2xx" /\ Len(posts[r]) = 1
         THEN /\ posts' = [posts EXCEPT ![r] = Append(@, @[1])]
              /\ UNCHANGED settled
         ELSE /\ settled' = [settled EXCEPT ![r] =
                   [outcome |-> outcome, log |-> IF outcome = "2xx" THEN "status" ELSE "error"]]
              /\ UNCHANGED posts
    /\ UNCHANGED <<bindings, req, inbox>>
    /\ UNCHANGED <<tokenVars, callbackVars, besideVars>>

\* lines 29-31 and 81-89: the POST ends; line 89 logs the status, the catch
\* of line 29 logs the error
ForwardSettles(r, outcome) ==
    /\ ForwardPending(r)
    /\ settled' = [settled EXCEPT ![r] =
         [outcome |-> outcome, log |-> IF outcome = "2xx" THEN "status" ELSE "error"]]
    /\ UNCHANGED <<bindings, req, posts, inbox>>
    /\ UNCHANGED <<tokenVars, callbackVars, besideVars>>

IdleDispatch ==
    /\ inbox = [r \in Reqs |-> NoRequest]
    /\ settled = [r \in Reqs |-> NoOutcome]

-----------------------------------------------------------------------------
(* Texts.  A text is kept as its layout: the names of the pieces it is made *)
(* of, its length in UTF-16 code units, and the 0-based positions of its    *)
(* newlines and of its spaces; every other unit is a non-whitespace one.    *)

Text(name, len, nl, sp) == [id |-> <<name>>, len |-> len, nl |-> nl, sp |-> sp]

\* a + b
Cat(a, b) ==
    [id |-> a.id \o b.id, len |-> a.len + b.len,
     nl |-> a.nl \cup {a.len + p : p \in b.nl},
     sp |-> a.sp \cup {a.len + p : p \in b.sp}]

EmptyText == [id |-> <<>>, len |-> 0, nl |-> {}, sp |-> {}]

\* a property the JSON body does not have
Undefined == [id |-> <<"undefined">>, len |-> 0, nl |-> {}, sp |-> {}]

\* !value of a string or undefined
Falsy(t) == t = Undefined \/ t.len = 0

DigitStr(d) == CASE d = 0 -> "0" [] d = 1 -> "1" [] d = 2 -> "2" [] d = 3 -> "3"
                 [] d = 4 -> "4" [] d = 5 -> "5" [] d = 6 -> "6" [] d = 7 -> "7"
                 [] d = 8 -> "8" [] d = 9 -> "9"

\* the decimal digits of n
RECURSIVE IntStr(_)
IntStr(n) == IF n < 10 THEN <<DigitStr(n)>> ELSE IntStr(n \div 10) \o <<DigitStr(n % 10)>>

\* (ms / 1000).toFixed(1): the nearest tenth of a second; for ms % 100 # 50
\* the double ms / 1000 rounds as the decimal does
toFixed1(ms) ==
    LET tenths == (ms + 50) \div 100
        digits == IntStr(tenths \div 10) \o <<".", DigitStr(tenths % 10)>>
    IN  [id |-> digits, len |-> Len(digits), nl |-> {}, sp |-> {}]

-----------------------------------------------------------------------------
(* services/wechat-message.ts: sendTextMessage *)

MAX_LENGTH == 600

Max(S) == CHOOSE x \in S : \A y \in S : y <= x

\* remaining.lastIndexOf(ch, position), where remaining is the content from
\* `start` on and `at` the positions of ch in the content
lastIndexOf(at, start, position) ==
    LET found == {p \in at : start <= p /\ p <= start + position}
    IN  IF found = {} THEN -1 ELSE Max(found) - start

\* faulty variant: the first space of the remainder is taken (indexOf)
splitIndex_firstSpace(content, start) ==
    LET found == {p \in content.sp : start <= p /\ p <= start + MAX_LENGTH}
    IN  IF found = {} THEN MAX_LENGTH
        ELSE (CHOOSE p \in found : \A q \in found : p <= q) - start

\* faulty variant: a break below the midpoint is taken
splitIndex_anyBreak(content, start) ==
    LET newline == lastIndexOf(content.nl, start, MAX_LENGTH)
        first == IF newline = -1
                   THEN lastIndexOf(content.sp, start, MAX_LENGTH) ELSE newline
    IN  IF first = -1 THEN MAX_LENGTH ELSE first

\* lines 144-150: where the content from `start` on, longer than MAX_LENGTH,
\* is split
splitIndex(content, start) ==
    LET newline == lastIndexOf(content.nl, start, MAX_LENGTH)
        first == IF newline = -1 \/ 2 * newline < MAX_LENGTH
                   THEN lastIndexOf(content.sp, start, MAX_LENGTH) ELSE newline
    IN  IF first = -1 \/ 2 * first < MAX_LENGTH THEN MAX_LENGTH ELSE first

\* .trimStart() of the content from `from` on: where the remainder begins
trimStart(content, from) ==
    LET rest == {p \in from..content.len : p = content.len \/ p \notin content.nl \cup content.sp}
    IN  CHOOSE p \in rest : \A q \in rest : p <= q

\* lines 134-154: the chunks of the content from `start` on, each the piece
\* [from, to) of the content
RECURSIVE chunksFrom(_, _)
chunksFrom(content, start) ==
    IF content.len - start = 0 THEN <<>>
    ELSE IF content.len - start <= MAX_LENGTH THEN << [from |-> start, to |-> content.len] >>
    ELSE LET cut == start + splitIndex(content, start)
         IN  << [from |-> start, to |-> cut] >> \o chunksFrom(content, trimStart(content, cut))

\* lines 125-154: the pieces sendTextMessage sends one by one
chunksOf(content) ==
    IF content.len <= MAX_LENGTH THEN << [from |-> 0, to |-> content.len] >>
    ELSE chunksFrom(content, 0)

\* the length of the marker `(${i + 1}/${chunks.length}) ` of line 159
prefixLength(n, total) == 1 + Len(IntStr(n)) + 1 + Len(IntStr(total)) + 2

\* lines 126-130 and 159-164: the n-th message given to
\* sendCustomerServiceMessage
outbound(openId, chunks, n) ==
    [touser |-> openId, n |-> n, total |-> Len(chunks),
     from |-> chunks[n].from, to |-> chunks[n].to, marked |-> n > 1,
     length |-> (IF n = 1 THEN 0 ELSE prefixLength(n, Len(chunks)))
                    + chunks[n].to - chunks[n].from]

-----------------------------------------------------------------------------
(* routes/callback.ts: the bodies of the requests *)

\* number of requests to the callback routes of one run (all may be in
\* flight together)
MaxCallbacks == 1

Callbacks == 1..MaxCallbacks

\* metadata: absent, present without thinking_time_ms, or with it
NoMetadata == [present |-> FALSE, has_time |-> FALSE, thinking_time_ms |-> 0]

Timed(ms) == [present |-> TRUE, has_time |-> TRUE, thinking_time_ms |-> ms]

Metadatas == {NoMetadata, [present |-> TRUE, has_time |-> FALSE, thinking_time_ms |-> 0],
              Timed(0), Timed(40), Timed(1500)}

T42 == Text("42", 2, {}, {})

Boom == Text("boom", 4, {}, {})

\* 595 units without whitespace
Long595 == Text("long595", 595, {}, {})

\* the contents given to sendTextMessage through the stream route
Layouts == {
    EmptyText,
    Text("x600", 600, {}, {}),
    Text("x601", 601, {}, {}),
    Text("x1450", 1450, {}, {}),
    Text("words1450", 1450, {}, {p \in 0..1449 : p % 50 = 49}),
    Text("newline450-space500", 900, {450}, {500}),
    Text("newline100-space580", 900, {100}, {350, 580}),
    Text("newline100-space200", 900, {100}, {200}),
    Text("spaces598to601-newline602", 900, {602}, {598, 599, 600, 601}),
    Text("newline600", 700, {600}, {}),
    Text("x600-spaces5", 605, {}, {600, 601, 602, 603, 604}) }

NoBody == [success |-> FALSE, result |-> Undefined, error |-> Undefined,
           metadata |-> NoMetadata, chunk |-> Undefined, done |-> FALSE]

\* ClawdbotCallbackPayload: {success, result?, error?, metadata?}
CallbackBodies ==
    {b \in [success : BOOLEAN, result : {Undefined, EmptyText, T42, Long595},
            error : {Undefined, EmptyText, Boom}, metadata : Metadatas,
            chunk : {Undefined}, done : {FALSE}] :
        /\ b.success =>
             /\ b.error = Undefined
             /\ b.result = Undefined => b.metadata \in {NoMetadata, Timed(1500)}
             /\ b.result = EmptyText => b.metadata = NoMetadata
             /\ b.result = Long595 => b.metadata = Timed(1500)
        /\ ~b.success =>
             /\ b.result \in {Undefined, T42}
             /\ b.result = T42 => (b.error = Undefined /\ b.metadata = NoMetadata)
             /\ b.metadata \in {NoMetadata, Timed(1500)}}

\* {chunk, done, chunk_index?}
StreamBodies ==
    {b \in [success : {FALSE}, result : {Undefined}, error : {Undefined},
            metadata : {NoMetadata}, chunk : Layouts \cup {T42}, done : BOOLEAN] :
        ~b.done => b.chunk \in {T42, Text("x1450", 1450, {}, {})}}

-----------------------------------------------------------------------------
(* routes/callback.ts: the two handlers, one action per stretch between     *)
(* awaits; sendCustomerServiceMessage is taken by what it returns           *)

\* the pieces of lines 48, 50 and 56, by their UTF-16 lengths
DONE_NO_CONTENT == Text("DONE_NO_CONTENT", 14, {}, {1})

FAILED_PREFIX == Text("FAILED_PREFIX", 7, {}, {1})

UNKNOWN_ERROR == Text("UNKNOWN_ERROR", 4, {}, {})

THINKING_TIME == Text("THINKING_TIME", 11, {0, 1}, {4, 10})

SECONDS == Text("s", 1, {}, {})

\* lines 45-57: messageContent
compose(body) ==
    LET base == IF body.success
                  THEN IF Falsy(body.result) THEN DONE_NO_CONTENT ELSE body.result
                  ELSE Cat(FAILED_PREFIX,
                           IF Falsy(body.error) THEN UNKNOWN_ERROR ELSE body.error)
    IN  IF /\ body.metadata.present /\ body.metadata.has_time
           /\ body.metadata.thinking_time_ms # 0
          THEN Cat(base, Cat(THINKING_TIME,
                             Cat(toFixed1(body.metadata.thinking_time_ms), SECONDS)))
          ELSE base

NoCbReply == [status |-> 0, ok |-> FALSE, buffered |-> FALSE, error |-> ""]

IdleCb ==
    [pc |-> "idle", route |-> "none", openid |-> Null, body |-> NoBody,
     binding |-> NoBinding,   \* what getBinding answered
     content |-> EmptyText,   \* the content given to sendTextMessage
     chunks |-> <<>>,
     sent |-> <<>>,           \* the messages given to sendCustomerServiceMessage
     results |-> <<>>,        \* what sendCustomerServiceMessage returned for each
     reply |-> NoCbReply]

\* lines 62-68 and 91: the answer of the route once sendTextMessage
\* returned `sent`
replyOf(route, sent) ==
    IF route = "stream" THEN [status |-> 200, ok |-> sent, buffered |-> FALSE, error |-> ""]
    ELSE IF sent THEN [status |-> 200, ok |-> TRUE, buffered |-> FALSE, error |-> ""]
    ELSE [status |-> 500, ok |-> FALSE, buffered |-> FALSE,
          error |-> "Failed to send WeChat message"]

\* sendTextMessage(openId, content) is called by the handler of slot c: the
\* chunks are made and the first message is given to sendCustomerServiceMessage
Deliver(c, content) ==
    LET chunks == chunksOf(content)
    IN  [c EXCEPT !.pc = "send", !.content = content, !.chunks = chunks,
                  !.sent = << outbound(c.openid, chunks, 1) >>]

\* POST /callback/:openid, lines 33-39: the call of getBinding
Callback(k, openid, body) ==
    /\ cb[k].pc = "idle"
    /\ \A j \in Callbacks : j < k => cb[j].pc # "idle"
    /\ cb' = [cb EXCEPT ![k] = [IdleCb EXCEPT !.pc = "getBinding", !.route = "callback",
                                             !.openid = openid, !.body = body]]
    /\ UNCHANGED <<wechatVars, tokenVars, dispatchVars, besideVars>>

\* faulty variant: nothing is delivered to a subject without Binding
CallbackLookup_requiresBinding(k) ==
    /\ cb[k].pc = "getBinding"
    /\ LET binding == getBinding(bindings, cb[k].openid)
       IN  cb' = [cb EXCEPT ![k] =
             IF binding = NoBinding
               THEN [@ EXCEPT !.pc = "done", !.reply = replyOf("callback", FALSE)]
               ELSE Deliver([@ EXCEPT !.binding = binding], compose(@.body))]
    /\ UNCHANGED <<wechatVars, tokenVars, dispatchVars, besideVars>>

\* lines 39-60: getBinding resolves, the message is composed and
\* sendTextMessage called
CallbackLookup(k) ==
    /\ cb[k].pc = "getBinding"
    /\ LET binding == getBinding(bindings, cb[k].openid)
       IN  cb' = [cb EXCEPT ![k] = Deliver([@ EXCEPT !.binding = binding], compose(@.body))]
    /\ UNCHANGED <<wechatVars, tokenVars, dispatchVars, besideVars>>

\* faulty variant: every chunk is delivered at once
Stream_sendsAll(k, openid, body) ==
    /\ cb[k].pc = "idle"
    /\ \A j \in Callbacks : j < k => cb[j].pc # "idle"
    /\ cb' = [cb EXCEPT ![k] =
         Deliver([IdleCb EXCEPT !.route = "stream", !.openid = openid, !.body = body],
                 body.chunk)]
    /\ UNCHANGED <<wechatVars, tokenVars, dispatchVars, besideVars>>

\* POST /callback/:openid/stream, lines 82-96
Stream(k, openid, body) ==
    /\ cb[k].pc = "idle"
    /\ \A j \in Callbacks : j < k => cb[j].pc # "idle"
    /\ cb' = [cb EXCEPT ![k] =
         LET c == [IdleCb EXCEPT !.route = "stream", !.openid = openid, !.body = body]
         IN  IF body.done THEN Deliver(c, body.chunk)
             ELSE [c EXCEPT !.pc = "done",
                     !.reply = [status |-> 200, ok |-> TRUE, buffered |-> TRUE, error |-> ""]]]
    /\ UNCHANGED <<wechatVars, tokenVars, dispatchVars, besideVars>>

\* faulty variant: the first failed send ends the call
SendReturns_stopOnFailure(k, ok) ==
    /\ cb[k].pc = "send"
    /\ cb' = [cb EXCEPT ![k] =
         LET c == [@ EXCEPT !.results = Append(@, ok)]
         IN  IF ok /\ Len(c.sent) < Len(c.chunks) THEN [c EXCEPT !.pc = "delay"]
             ELSE [c EXCEPT !.pc = "done", !.reply = replyOf(c.route, ok)]]
    /\ UNCHANGED <<wechatVars, tokenVars, dispatchVars, besideVars>>

\* faulty variant: the result of the last chunk is the result of the call
SendReturns_lastOnly(k, ok) ==
    /\ cb[k].pc = "send"
    /\ cb' = [cb EXCEPT ![k] =
         LET c == [@ EXCEPT !.results = Append(@, ok)]
         IN  IF Len(c.sent) < Len(c.chunks) THEN [c EXCEPT !.pc = "delay"]
             ELSE [c EXCEPT !.pc = "done", !.reply = replyOf(c.route, ok)]]
    /\ UNCHANGED <<wechatVars, tokenVars, dispatchVars, besideVars>>

\* sendTextMessage lines 125-131 and 160-176, callback.ts lines 60-68 and
\* 90-91: sendCustomerServiceMessage returns `ok`; before the last chunk the
\* 100 ms timer is started, after it sendTextMessage returns and the handler
\* answers
SendReturns(k, ok) ==
    /\ cb[k].pc = "send"
    /\ cb' = [cb EXCEPT ![k] =
         LET c == [@ EXCEPT !.results = Append(@, ok)]
             success == \A i \in 1..Len(c.results) : c.results[i]
         IN  IF Len(c.sent) < Len(c.chunks) THEN [c EXCEPT !.pc = "delay"]
             ELSE [c EXCEPT !.pc = "done", !.reply = replyOf(c.route, success)]]
    /\ UNCHANGED <<wechatVars, tokenVars, dispatchVars, besideVars>>

\* lines 157-164 and 172: the timer fires, the next chunk is given to
\* sendCustomerServiceMessage
Delay(k) ==
    /\ cb[k].pc = "delay"
    /\ cb' = [cb EXCEPT ![k] = [@ EXCEPT !.pc = "send",
                !.sent = Append(@, outbound(cb[k].openid, cb[k].chunks, Len(cb[k].sent) + 1))]]
    /\ UNCHANGED <<wechatVars, tokenVars, dispatchVars, besideVars>>

IdleCallback == cb = [k \in Callbacks |-> IdleCb]

-----------------------------------------------------------------------------
(* services/wechat-token.ts: state of the token manager *)

TOKEN_REFRESH_THRESHOLD == 600

\* redis.set(TOKEN_LOCK_KEY, '1', 'EX', 30, 'NX')
LOCK_TTL == 30

\* setTimeout(resolve, 1000), in seconds
BACKOFF == 1

\* the platform's auth-rejected code
ERR_TOKEN == 40001

\* what the send API answers: errcode 0, the auth-rejected code, some other
\* errcode, or no answer at all (-1: axios.post throws)
SendCodes == {0, ERR_TOKEN, 45015, -1}

\* number of clock steps of one run
MaxTicks == 1

\* the callers of one run (both may be in flight together, in one process or
\* in two replicas: the token manager keeps no state outside the store)
Callers == {1, 2}

\* the seconds by which the clock may step
TickSteps == {1, 30, 300}

\* the expires_in values the platform answers with
ExpiresIn == {300, 900}

\* the key wechat:access_token: TokenCache, and the time its EX runs out
NoToken == [accessToken |-> 0, expiresAt |-> 0, ttlUntil |-> 0]

NoLock == [until |-> 0, owner |-> 0]

\* redis GET of a key set with EX: gone once its time to live has run out
RedisGet(key, none, t) == IF key # none /\ t < key.ttlUntil THEN key ELSE none

\* the lock key exists at time t
LockHeld(l, t) == l # NoLock /\ t < l.until

\* faulty variant: no safety margin
TokenStillValid_noMargin(tokenData, t) == tokenData.expiresAt > t

\* faulty variant: the boundary second counts as valid
TokenStillValid_inclusive(tokenData, t) ==
    tokenData.expiresAt - TOKEN_REFRESH_THRESHOLD >= t

\* line 26: tokenData.expiresAt - TOKEN_REFRESH_THRESHOLD > now
TokenStillValid(tokenData, t) == tokenData.expiresAt - TOKEN_REFRESH_THRESHOLD > t

\* what a token function returned: the token, whether it came from the cache,
\* whether getAccessToken returned it, and whether now < expiresAt - 600 held
\* at that moment
NoRet == [tok |-> 0, fromCache |-> FALSE, viaGet |-> FALSE, margin |-> FALSE]

IdleCaller ==
    [pc |-> "idle", op |-> "none",
     retry |-> FALSE,     \* retryOnTokenError of the running sendCustomerServiceMessage
     inForce |-> FALSE,   \* inside the forceRefreshToken call of line 105
     entry |-> "none",    \* the token function entered last: "get" or "force"
     first |-> "none",    \* what the caller's first read of the cache found
     call |-> 0,          \* number of this caller's exchange call in flight
     tok |-> 0,           \* access_token in hand
     exp |-> 0,           \* tokenData.expiresAt
     ein |-> 0,           \* expires_in
     fail |-> FALSE,      \* an error is propagating through the finally block
     wake |-> 0,          \* when the backoff timer fires
     with |-> {},         \* the callers in flight when this one started
     resps |-> <<>>,      \* the answers of the send API to this caller
     forces |-> 0,        \* forceRefreshToken calls of this caller
     threw |-> FALSE,     \* a token function threw to this caller
     result |-> "none",
     ret |-> NoRet]       \* what the last token function call returned

InFlight(c) == c.pc \notin {"idle", "done"}

\* a token function returns `token` to its caller, which runs on to its next
\* await: a plain caller of getAccessToken or forceRefreshToken is done; line 86 goes on to the
\* axios.post; line 105 goes on to sendCustomerServiceMessage(message, false)
Return(c, token, expiresAt, fromCache, t) ==
    LET c1 == [c EXCEPT !.ret = [tok |-> token, fromCache |-> fromCache,
                                 viaGet |-> c.entry = "get",
                                 margin |-> t < expiresAt - TOKEN_REFRESH_THRESHOLD],
                        !.call = 0, !.exp = 0, !.ein = 0, !.wake = 0]
    IN  IF c.op # "send" THEN [c1 EXCEPT !.pc = "done", !.result = "token", !.tok = token]
        ELSE IF c.inForce
          THEN [c1 EXCEPT !.pc = "get", !.entry = "get", !.inForce = FALSE, !.retry = FALSE]
          ELSE [c1 EXCEPT !.pc = "post", !.tok = token]

\* a token function throws: a plain caller gets the error; the catch of
\* sendCustomerServiceMessage (lines 111-114) returns false
Throw(c) ==
    LET c1 == [c EXCEPT !.call = 0, !.exp = 0, !.ein = 0, !.wake = 0, !.tok = 0]
    IN  IF c.op # "send" THEN [c1 EXCEPT !.pc = "done", !.result = "throw", !.threw = TRUE]
        ELSE [c1 EXCEPT !.pc = "done", !.result = "false", !.threw = TRUE]

-----------------------------------------------------------------------------
(* services/wechat-token.ts and services/wechat-message.ts: one action per  *)
(* stretch between awaits; a redis command takes effect in the step that    *)
(* resumes its caller                                                       *)

Started(p) ==
    /\ caller[p].pc = "idle"
    /\ \A q \in Callers : q < p => caller[q].pc # "idle"

\* a caller calls getAccessToken(): line 19 issues the GET
StartGet(p) ==
    /\ Started(p)
    /\ caller' = [caller EXCEPT ![p] = [@ EXCEPT !.pc = "get", !.op = "get", !.entry = "get",
                     !.with = {q \in Callers : InFlight(caller[q])}]]
    /\ UNCHANGED <<now, ticks, cache, lock, issued>>
    /\ UNCHANGED <<wechatVars, dispatchVars, callbackVars, besideVars>>

\* a caller calls forceRefreshToken(): line 90 issues the DEL of the token
StartForce(p) ==
    /\ Started(p)
    /\ caller' = [caller EXCEPT ![p] = [@ EXCEPT !.pc = "deltok", !.op = "force",
                     !.entry = "force", !.with = {q \in Callers : InFlight(caller[q])}]]
    /\ UNCHANGED <<now, ticks, cache, lock, issued>>
    /\ UNCHANGED <<wechatVars, dispatchVars, callbackVars, besideVars>>

\* a caller calls sendCustomerServiceMessage(message): line 86; one message
\* is sent in a run, next to the other callers of the token manager
StartSend(p) ==
    /\ Started(p)
    /\ \A q \in Callers : caller[q].op # "send"
    /\ caller' = [caller EXCEPT ![p] = [@ EXCEPT !.pc = "get", !.op = "send", !.entry = "get",
                     !.retry = TRUE, !.with = {q \in Callers : InFlight(caller[q])}]]
    /\ UNCHANGED <<now, ticks, cache, lock, issued>>
    /\ UNCHANGED <<wechatVars, dispatchVars, callbackVars, besideVars>>

\* getAccessToken, lines 19-32, and line 43 of refreshAccessToken
CacheRead(p) ==
    /\ caller[p].pc = "get"
    /\ LET cached == RedisGet(cache, NoToken, now)
       IN  caller' = [caller EXCEPT ![p] =
             IF cached # NoToken /\ TokenStillValid(cached, now)
               THEN Return([@ EXCEPT !.first = IF @ = "none" THEN "hit" ELSE @],
                           cached.accessToken, cached.expiresAt, TRUE, now)
               ELSE [@ EXCEPT !.pc = "lock", !.first = IF @ = "none" THEN "miss" ELSE @]]
    /\ UNCHANGED <<now, ticks, cache, lock, issued>>
    /\ UNCHANGED <<wechatVars, dispatchVars, callbackVars, besideVars>>

\* faulty variant: a caller that finds the lock key waits for its deletion
TryLock_waits(p) ==
    /\ caller[p].pc = "lock"
    /\ lock = NoLock
    /\ lock' = [until |-> now + LOCK_TTL, owner |-> p]
    /\ issued' = issued + 1
    /\ caller' = [caller EXCEPT ![p] = [@ EXCEPT !.pc = "exchange", !.call = issued + 1]]
    /\ UNCHANGED <<now, ticks, cache>>
    /\ UNCHANGED <<wechatVars, dispatchVars, callbackVars, besideVars>>

\* refreshAccessToken, lines 43-59: SET NX answers; without the lock the
\* timer is started, with it the exchange call is made
TryLock(p) ==
    /\ caller[p].pc = "lock"
    /\ IF LockHeld(lock, now)
         THEN /\ caller' = [caller EXCEPT ![p] = [@ EXCEPT !.pc = "backoff",
                                                           !.wake = now + BACKOFF]]
              /\ UNCHANGED <<lock, issued>>
         ELSE /\ lock' = [until |-> now + LOCK_TTL, owner |-> p]
              /\ issued' = issued + 1
              /\ caller' = [caller EXCEPT ![p] = [@ EXCEPT !.pc = "exchange",
                                                           !.call = issued + 1]]
    /\ UNCHANGED <<now, ticks, cache>>
    /\ UNCHANGED <<wechatVars, dispatchVars, callbackVars, besideVars>>

\* lines 47-48: the timer fires, getAccessToken() is called again
Backoff(p) ==
    /\ caller[p].pc = "backoff"
    /\ now >= caller[p].wake
    /\ caller' = [caller EXCEPT ![p] = [@ EXCEPT !.pc = "get", !.entry = "get", !.wake = 0]]
    /\ UNCHANGED <<now, ticks, cache, lock, issued>>
    /\ UNCHANGED <<wechatVars, dispatchVars, callbackVars, besideVars>>

\* lines 53-74: the exchange answers access_token and expires_in; the SET of
\* the token is issued
ExchangeOk(p, e) ==
    /\ caller[p].pc = "exchange"
    /\ caller' = [caller EXCEPT ![p] = [@ EXCEPT !.pc = "store", !.tok = caller[p].call,
                                                 !.exp = now + e, !.ein = e]]
    /\ UNCHANGED <<now, ticks, cache, lock, issued>>
    /\ UNCHANGED <<wechatVars, dispatchVars, callbackVars, besideVars>>

\* lines 53-63 and 79-81: the exchange throws or answers an errcode; the
\* finally block issues the DEL of the lock
ExchangeFail(p) ==
    /\ caller[p].pc = "exchange"
    /\ caller' = [caller EXCEPT ![p] = [@ EXCEPT !.pc = "release", !.fail = TRUE]]
    /\ UNCHANGED <<now, ticks, cache, lock, issued>>
    /\ UNCHANGED <<wechatVars, dispatchVars, callbackVars, besideVars>>

\* lines 74-81: the SET of the token takes effect; the finally block issues
\* the DEL of the lock
StoreToken(p) ==
    /\ caller[p].pc = "store"
    /\ cache' = [accessToken |-> caller[p].tok, expiresAt |-> caller[p].exp,
                 ttlUntil |-> now + caller[p].ein]
    /\ caller' = [caller EXCEPT ![p] = [@ EXCEPT !.pc = "release"]]
    /\ UNCHANGED <<now, ticks, lock, issued>>
    /\ UNCHANGED <<wechatVars, dispatchVars, callbackVars, besideVars>>

\* faulty variant: the lock is released on the success path only
ReleaseLock_successOnly(p) ==
    /\ caller[p].pc = "release"
    /\ lock' = IF caller[p].fail THEN lock ELSE NoLock
    /\ caller' = [caller EXCEPT ![p] =
         IF @.fail THEN Throw([@ EXCEPT !.fail = FALSE])
         ELSE Return(@, @.tok, @.exp, FALSE, now)]
    /\ UNCHANGED <<now, ticks, cache, issued>>
    /\ UNCHANGED <<wechatVars, dispatchVars, callbackVars, besideVars>>

\* lines 78-82: the DEL of the lock takes effect; refreshAccessToken returns
\* access_token or lets the error through
ReleaseLock(p) ==
    /\ caller[p].pc = "release"
    /\ lock' = NoLock
    /\ caller' = [caller EXCEPT ![p] =
         IF @.fail THEN Throw([@ EXCEPT !.fail = FALSE])
         ELSE Return(@, @.tok, @.exp, FALSE, now)]
    /\ UNCHANGED <<now, ticks, cache, issued>>
    /\ UNCHANGED <<wechatVars, dispatchVars, callbackVars, besideVars>>

\* forceRefreshToken, lines 88-91, and line 43: the DEL of the token takes
\* effect, refreshAccessToken issues its SET NX
DelToken(p) ==
    /\ caller[p].pc = "deltok"
    /\ cache' = NoToken
    /\ caller' = [caller EXCEPT ![p] = [@ EXCEPT !.pc = "lock"]]
    /\ UNCHANGED <<now, ticks, lock, issued>>
    /\ UNCHANGED <<wechatVars, dispatchVars, callbackVars, besideVars>>

\* faulty variant: the retry does not turn retryOnTokenError off
SendAnswer_retryAgain(p, code) ==
    /\ caller[p].pc = "post"
    /\ caller' = [caller EXCEPT ![p] =
         LET c == [@ EXCEPT !.resps = Append(@, code)]
         IN  IF code = 0 THEN [c EXCEPT !.pc = "done", !.result = "true"]
             ELSE IF code = ERR_TOKEN
               THEN [c EXCEPT !.pc = "deltok", !.inForce = TRUE, !.entry = "force",
                              !.forces = @ + 1]
               ELSE [c EXCEPT !.pc = "done", !.result = "false"]]
    /\ UNCHANGED <<now, ticks, cache, lock, issued>>
    /\ UNCHANGED <<wechatVars, dispatchVars, callbackVars, besideVars>>

\* sendCustomerServiceMessage, lines 88-110: the send API answers errcode
\* `code` (-1: axios.post throws)
SendAnswer(p, code) ==
    /\ caller[p].pc = "post"
    /\ caller' = [caller EXCEPT ![p] =
         LET c == [@ EXCEPT !.resps = Append(@, code)]
         IN  IF code = 0 THEN [c EXCEPT !.pc = "done", !.result = "true"]
             ELSE IF code = ERR_TOKEN /\ c.retry
               THEN [c EXCEPT !.pc = "deltok", !.inForce = TRUE, !.entry = "force",
                              !.forces = @ + 1]
               ELSE [c EXCEPT !.pc = "done", !.result = "false"]]
    /\ UNCHANGED <<now, ticks, cache, lock, issued>>
    /\ UNCHANGED <<wechatVars, dispatchVars, callbackVars, besideVars>>

\* the clock advances
Tick(d) ==
    /\ ticks < MaxTicks
    /\ now' = now + d
    /\ ticks' = ticks + 1
    /\ UNCHANGED <<cache, lock, issued, caller>>
    /\ UNCHANGED <<wechatVars, dispatchVars, callbackVars, besideVars>>

-----------------------------------------------------------------------------
(* services/clawdbot-forwarder.ts: the task of a forwarded message.  A      *)
(* JavaScript value is kept with its type; a string is the sequence of its  *)
(* pieces, the empty string the empty sequence                              *)

JsUndefined == [type |-> "undefined", v |-> <<>>]

JsString(pieces) == [type |-> "string", v |-> pieces]

\* a number, by its decimal text
JsNumber(digits) == [type |-> "number", v |-> <<digits>>]

Truthy(x) == \/ x.type = "string" /\ x.v # <<>>
             \/ x.type = "number" /\ x.v # <<"0">>

\* x || alt
Or(x, alt) == IF Truthy(x) THEN x ELSE alt

\* ${x} in a template literal
Interpolate(x) == IF x.type = "undefined" THEN <<"undefined">> ELSE x.v

\* an optional string field: absent, empty, or with a text
Optional(text) == {JsUndefined, JsString(<<>>), JsString(<<text>>)}

\* a message of one kind with none of the optional fields
Bare(from, kind) ==
    [FromUserName |-> from, MsgType |-> kind,
     Content |-> JsUndefined, Recognition |-> JsUndefined, PicUrl |-> JsUndefined,
     Location_X |-> JsUndefined, Location_Y |-> JsUndefined, Label |-> JsUndefined,
     Title |-> JsUndefined, Description |-> JsUndefined, Url |-> JsUndefined]

\* the messages given to doForward: every kind, each optional field of the
\* kind absent, empty and present
TaskMessages ==
    UNION {
        {[Bare(from, "text") EXCEPT !.Content = c] : c \in Optional("hello")}
        \cup {[Bare(from, "voice") EXCEPT !.Recognition = c] : c \in Optional("what time is it")}
        \cup {[Bare(from, "image") EXCEPT !.PicUrl = c] : c \in Optional("http://pic.example/1")}
        \cup {[Bare(from, "location") EXCEPT !.Label = c, !.Location_X = xy[1], !.Location_Y = xy[2]] :
                  c \in Optional("Beijing"),
                  xy \in {<<JsNumber("39.9"), JsNumber("116.4")>>, <<JsUndefined, JsUndefined>>}}
        \cup {[Bare(from, "link") EXCEPT !.Title = t, !.Description = d, !.Url = u] :
                  t \in Optional("title"), d \in Optional("description"),
                  u \in Optional("http://link.example")}
        \cup {Bare(from, kind) : kind \in {"event", "video", "shortvideo", "file"}}
        : from \in Subjects }

\* doForward, lines 43-64; the fixed texts are given by their meaning
task(message) ==
    CASE message.MsgType = "text" -> Or(message.Content, JsString(<<>>))
      [] message.MsgType = "voice" -> Or(message.Recognition, JsString(<<"[voice message, not recognised]">>))
      [] message.MsgType = "image" ->
             JsString(<<"[image message] ">> \o Interpolate(Or(message.PicUrl, JsString(<<>>))))
      [] message.MsgType = "location" ->
             JsString(<<"[location message] longitude: ">> \o Interpolate(message.Location_Y)
                      \o <<", latitude: ">> \o Interpolate(message.Location_X)
                      \o <<", ">> \o Interpolate(Or(message.Label, JsString(<<>>))))
      [] message.MsgType = "link" ->
             JsString(<<"[link message] ">> \o Interpolate(Or(message.Title, JsString(<<>>)))
                      \o <<"\n">> \o Interpolate(Or(message.Description, JsString(<<>>)))
                      \o <<"\n">> \o Interpolate(Or(message.Url, JsString(<<>>))))
      [] OTHER -> JsString(<<"[", message.MsgType, " message]">>)

NoEnvelope == [built |-> FALSE, msg |-> Bare(Null, Null), task |-> JsUndefined,
               post |-> doForward(NoMsg, NoBinding)]

IdleTask == envelope = NoEnvelope

\* doForward(message, binding), lines 37-87: the payload is built and the
\* axios.post issued; one call in a run
Forward(message, binding) ==
    /\ ~envelope.built
    /\ envelope' = [built |-> TRUE, msg |-> message, task |-> task(message),
                    post |-> doForward(message, binding)]
    /\ UNCHANGED <<wechatVars, tokenVars, dispatchVars, callbackVars,
                   forceVars, signatureVars, pluginVars, asideVars>>

-----------------------------------------------------------------------------
(* clawdbot-plugin-webhook-server/src/index.ts: POST /webhook and the task  *)
(* it starts                                                                *)

MaxHooks == 1

Hooks == 1..MaxHooks

Secret == "secret-1"

\* config.authToken: none configured, or one
AuthTokens == {"", Secret}

\* `Bearer ${token}`
Bearer(token) == <<"Bearer", token>>

\* request.headers.authorization: absent, the expected one, one with another
\* token, one with the scheme in lower case
NoHeader == <<>>

HookHeaders == {NoHeader, Bearer(Secret), Bearer("wrong"), <<"bearer", Secret>>}

CallbackU1 == "https://bridge.example/callback/U1"

\* new URL(x) does not throw
ParsesAsUrl(x) == x.type = "string" /\ Len(x.v) = 1 /\ x.v[1] \in AbsoluteUrls \cup {CallbackU1}

\* request.body: null (a JSON null, or a request without a body), or an
\* object whose task and callback_url are absent, empty, or present
NullBody == [null |-> TRUE, task |-> JsUndefined, callback_url |-> JsUndefined]

HookBodies ==
    {NullBody} \cup
    [null : {FALSE},
     task : {JsUndefined, JsString(<<>>), JsString(<<"hello">>), JsNumber("123")},
     callback_url : {JsUndefined, JsString(<<>>), JsString(<<BadUrl>>), JsString(<<CallbackU1>>)}]

NoHookReply == [status |-> 0, body |-> "none"]

IdleHook ==
    [pc |-> "idle", authorization |-> NoHeader, body |-> NullBody,
     reply |-> NoHookReply,
     started |-> FALSE,     \* processWebhookTask was called
     callbacks |-> <<>>,    \* the payloads given to axios.post by sendCallback
     late |-> "none",       \* how the loser of the Promise.race settled afterwards
     log |-> <<>>]

IdlePlugin ==
    /\ authToken = Secret
    /\ hook = [h \in Hooks |-> IdleHook]

\* the agent's answers: a text, or the 'No response' callChatRpc puts in
\* place of an empty one
AgentTexts == {"42", "No response"}

\* the rejections of the task's Promise.race: callChatRpc throws (line 749),
\* or the timer of line 775 fires first
TaskErrors == {"No chat method available", "Task timeout"}

\* POST /webhook, lines 851-888, with processWebhookTask up to its first
\* await (lines 761-777).  A null body makes `payload.task` throw, which the
\* framework answers with 500; a task that is no string makes
\* `payload.task.slice` throw before the try block, which rejects the
\* promise of processWebhookTask into the catch of line 879
Webhook(h, authHeader, body) ==
    /\ hook[h].pc = "idle"
    /\ hook' = [hook EXCEPT ![h] =
         LET c == [@ EXCEPT !.authorization = authHeader, !.body = body]
         IN  IF authToken # "" /\ authHeader # Bearer(authToken)
               THEN [c EXCEPT !.pc = "done",
                              !.reply = [status |-> 401, body |-> "Unauthorized"]]
             ELSE IF body.null
               THEN [c EXCEPT !.pc = "done",
                              !.reply = [status |-> 500, body |-> "Internal Server Error"]]
             ELSE IF ~Truthy(body.task) \/ ~Truthy(body.callback_url)
               THEN [c EXCEPT !.pc = "done",
                              !.reply = [status |-> 400, body |-> "Invalid payload"]]
             ELSE IF ~ParsesAsUrl(body.callback_url)
               THEN [c EXCEPT !.pc = "done",
                              !.reply = [status |-> 400, body |-> "Invalid callback_url"]]
             ELSE IF body.task.type # "string"
               THEN [c EXCEPT !.pc = "done", !.started = TRUE,
                              !.log = Append(@, "unhandled error"),
                              !.reply = [status |-> 202, body |-> "accepted"]]
             ELSE [c EXCEPT !.pc = "agent", !.started = TRUE,
                            !.reply = [status |-> 202, body |-> "accepted"]]]
    /\ UNCHANGED <<authToken, wechatVars, tokenVars, dispatchVars, callbackVars,
                   forceVars, taskVars, signatureVars, asideVars>>

\* sendCallback, lines 815-826: the one axios.post to callbackUrl
sendCallback(c, payload) ==
    [c EXCEPT !.pc = "callback",
              !.callbacks = Append(@, [url |-> c.body.callback_url, payload |-> payload])]

\* processWebhookTask, lines 768-793: callChatRpc answers before the timer
AgentReturns(h, text) ==
    /\ hook[h].pc = "agent"
    /\ hook' = [hook EXCEPT ![h] =
         sendCallback(@, [success |-> TRUE, result |-> text, error |-> ""])]
    /\ UNCHANGED <<authToken, wechatVars, tokenVars, dispatchVars, callbackVars,
                   forceVars, taskVars, signatureVars, asideVars>>

\* processWebhookTask, lines 768-777 and 795-808: the race is lost, to a
\* throw of callChatRpc or to the timer
TaskFails(h, error) ==
    /\ hook[h].pc = "agent"
    /\ hook' = [hook EXCEPT ![h] =
         sendCallback([@ EXCEPT !.log = Append(@, "task failed")],
                      [success |-> FALSE, result |-> "", error |-> error])]
    /\ UNCHANGED <<authToken, wechatVars, tokenVars, dispatchVars, callbackVars,
                   forceVars, taskVars, signatureVars, asideVars>>

\* sendCallback, lines 826-832: the POST ends, with a 2xx answer or with an
\* error that is logged
CallbackSettles(h, outcome) ==
    /\ hook[h].pc = "callback"
    /\ hook' = [hook EXCEPT ![h] =
         [@ EXCEPT !.pc = "done",
                   !.log = Append(@, IF outcome = "2xx" THEN "callback sent"
                                     ELSE "callback failed")]]
    /\ UNCHANGED <<authToken, wechatVars, tokenVars, dispatchVars, callbackVars,
                   forceVars, taskVars, signatureVars, asideVars>>

\* the promise that lost the race has not settled yet
RaceLoserPending(h) ==
    /\ hook[h].callbacks # <<>>
    /\ hook[h].late = "none"

\* what the loser of the race can still do: when the timer won, callChatRpc
\* answers a text or throws; when callChatRpc won, the timer fires
LateEvents(h) ==
    IF hook[h].callbacks[1].payload.error = "Task timeout"
      THEN AgentTexts \cup {"throws"}
      ELSE {"timer"}

\* faulty variant: a text that callChatRpc answers after the timer is sent as
\* a success callback
LoserSettles_delivers(h, event) ==
    /\ RaceLoserPending(h)
    /\ event \in LateEvents(h)
    /\ hook' = [hook EXCEPT ![h] =
         IF event \in AgentTexts
           THEN [@ EXCEPT !.late = event,
                          !.callbacks = Append(@, [url |-> hook[h].body.callback_url,
                              payload |-> [success |-> TRUE, result |-> event, error |-> ""]])]
           ELSE [@ EXCEPT !.late = event]]
    /\ UNCHANGED <<authToken, wechatVars, tokenVars, dispatchVars, callbackVars,
                   forceVars, taskVars, signatureVars, asideVars>>

\* lines 768-777: Promise.race has settled with its first input; the other
\* input settles later and the race ignores it (the timer of line 775 is
\* never cleared, callChatRpc is never cancelled)
LoserSettles(h, event) ==
    /\ RaceLoserPending(h)
    /\ event \in LateEvents(h)
    /\ hook' = [hook EXCEPT ![h].late = event]
    /\ UNCHANGED <<authToken, wechatVars, tokenVars, dispatchVars, callbackVars,
                   forceVars, taskVars, signatureVars, asideVars>>

-----------------------------------------------------------------------------
(* The plugin: the service 'webhook-server' and its status                   *)

\* number of start() and stop() calls of one run
MaxCalls == 4

\* `server` is null (0) after register; no server was made, none listens
NoService ==
    [server |-> 0,        \* the module variable: 0 for null, else the server's number
     made |-> 0,          \* number of createServer calls
     listening |-> {},    \* the servers that are listening
     call |-> "none",     \* the service call that is at its await
     calls |-> <<>>]      \* the service calls that have returned, oldest first

\* lines 908-912: start() makes a server, assigns it to `server` and calls
\* listen
start ==
    /\ service.call = "none"
    /\ Len(service.calls) < MaxCalls
    /\ service' = [service EXCEPT !.made = @ + 1, !.server = service.made + 1,
                                  !.call = "start"]
    /\ UNCHANGED history
    /\ UNCHANGED <<wechatVars, tokenVars, dispatchVars, callbackVars,
                   forceVars, taskVars, signatureVars, pluginVars>>

\* lines 912-917: listen resolves, or rejects (start logs and rethrows); it
\* cannot resolve while another server made by the plugin holds the port
listen(ok) ==
    /\ service.call = "start"
    /\ ok => service.listening = {}
    /\ service' = [service EXCEPT
         !.listening = IF ok THEN @ \cup {service.server} ELSE @,
         !.calls = Append(@, IF ok THEN "start" ELSE "start failed"),
         !.call = "none"]
    /\ UNCHANGED history
    /\ UNCHANGED <<wechatVars, tokenVars, dispatchVars, callbackVars,
                   forceVars, taskVars, signatureVars, pluginVars>>

\* lines 920-922: stop() returns at once when `server` is null, else calls
\* close
stop ==
    /\ service.call = "none"
    /\ Len(service.calls) < MaxCalls
    /\ service' = IF service.server = 0
                    THEN [service EXCEPT !.calls = Append(@, "stop")]
                    ELSE [service EXCEPT !.call = "stop"]
    /\ UNCHANGED history
    /\ UNCHANGED <<wechatVars, tokenVars, dispatchVars, callbackVars,
                   forceVars, taskVars, signatureVars, pluginVars>>

\* lines 922-924: close resolves, `server` is set to null
close ==
    /\ service.call = "stop"
    /\ service' = [service EXCEPT !.listening = @ \ {service.server}, !.server = 0,
                                  !.calls = Append(@, "stop"), !.call = "none"]
    /\ UNCHANGED history
    /\ UNCHANGED <<wechatVars, tokenVars, dispatchVars, callbackVars,
                   forceVars, taskVars, signatureVars, pluginVars>>

\* lines 935 and 946: what the webhook-status command and the
\* webhook-server.status method report
status == IF service.server # 0 THEN "running" ELSE "stopped"

\* no forceRefreshToken call has deleted the token yet
NoPurge == [done |-> FALSE, deleted |-> 0, issued |-> 0, race |-> FALSE]

IdleForce == purge = [p \in Callers |-> NoPurge]

IdleAside == history = <<>> /\ service = NoService

IdleBeside == IdleForce /\ IdleTask /\ IdleSignature /\ IdlePlugin /\ IdleAside

\* no token cached, no lock, no caller
IdleToken ==
    /\ now = 0
    /\ ticks = 0
    /\ cache = NoToken
    /\ lock = NoLock
    /\ issued = 0
    /\ caller = [p \in Callers |-> IdleCaller]

IdleWechat ==
    /\ bindings = [s \in Subjects |-> NoBinding]
    /\ req = [r \in Reqs |-> IdleReq]
    /\ posts = [r \in Reqs |-> <<>>]

InitToken == IdleWechat /\ IdleToken /\ IdleDispatch /\ IdleCallback /\ IdleBeside

NextToken ==
    \/ \E p \in Callers : StartGet(p)
    \/ \E p \in Callers : StartForce(p)
    \/ \E p \in Callers : StartSend(p)
    \/ \E p \in Callers : CacheRead(p)
    \/ \E p \in Callers : TryLock(p)
    \/ \E p \in Callers : Backoff(p)
    \/ \E p \in Callers, e \in ExpiresIn : ExchangeOk(p, e)
    \/ \E p \in Callers : ExchangeFail(p)
    \/ \E p \in Callers : StoreToken(p)
    \/ \E p \in Callers : ReleaseLock(p)
    \/ \E p \in Callers : DelToken(p)
    \/ \E p \in Callers, code \in SendCodes : SendAnswer(p, code)
    \/ \E d \in TickSteps : Tick(d)

SpecToken == InitToken /\ [][NextToken]_vars

-----------------------------------------------------------------------------
(* getAccessToken under contention: refreshers that may die with the lock,  *)
(* and a clock that goes on while a caller waits for its timer              *)

\* the process of a refresher dies between its SET NX and its DEL of the
\* lock: the lock key stays until its TTL is over
Crash(p) ==
    /\ caller[p].pc \in {"exchange", "store", "release"}
    /\ caller' = [caller EXCEPT ![p] = [@ EXCEPT !.pc = "crashed"]]
    /\ UNCHANGED <<now, ticks, cache, lock, issued>>
    /\ UNCHANGED <<wechatVars, dispatchVars, callbackVars, besideVars>>

\* the second of the timer of line 47 passes
Elapse ==
    /\ \E p \in Callers : caller[p].pc = "backoff" /\ now < caller[p].wake
    /\ now' = now + BACKOFF
    /\ UNCHANGED <<ticks, cache, lock, issued, caller>>
    /\ UNCHANGED <<wechatVars, dispatchVars, callbackVars, besideVars>>

\* the exchange endpoint answers
Answer(p) == (\E e \in ExpiresIn : ExchangeOk(p, e)) \/ ExchangeFail(p)

\* the next step of a getAccessToken call under way; its position makes at
\* most one of them possible
Continue(p) ==
    \/ CacheRead(p)
    \/ TryLock(p)
    \/ Backoff(p)
    \/ Answer(p)
    \/ StoreToken(p)
    \/ ReleaseLock(p)

NextLive ==
    \/ \E p \in Callers : StartGet(p)
    \/ \E p \in Callers : Continue(p)
    \/ \E p \in Callers : Crash(p)
    \/ Elapse

\* a live process runs every continuation that is ready, redis and the
\* exchange endpoint answer, timers fire; nothing makes a caller call, and
\* nothing makes a process die
FairLive ==
    /\ \A p \in Callers : WF_vars(Continue(p))
    /\ WF_vars(Elapse)

SpecTokenLive == InitToken /\ [][NextLive]_vars /\ FairLive

-----------------------------------------------------------------------------
(* forceRefreshToken next to the other callers, with what its DEL found     *)
(* kept in `purge`                                                          *)

\* faulty variant: forceRefreshToken refreshes without the DEL of the token
DelTokenNoted_keeps(p) ==
    /\ caller[p].pc = "deltok"
    /\ cache' = cache
    /\ caller' = [caller EXCEPT ![p] = [@ EXCEPT !.pc = "lock"]]
    /\ purge' = [purge EXCEPT ![p] =
         [done |-> TRUE,
          deleted |-> RedisGet(cache, NoToken, now).accessToken,
          issued |-> issued,
          race |-> \E q \in Callers : caller[q].pc \in {"exchange", "store"}]]
    /\ UNCHANGED <<now, ticks, lock, issued>>
    /\ UNCHANGED <<wechatVars, dispatchVars, callbackVars, taskVars, signatureVars, pluginVars,
                   asideVars>>

\* DelToken, with the token it deleted, the number of exchange calls made
\* before it, and whether a refresh was under way, kept for the record
DelTokenNoted(p) ==
    /\ caller[p].pc = "deltok"
    /\ cache' = NoToken
    /\ caller' = [caller EXCEPT ![p] = [@ EXCEPT !.pc = "lock"]]
    /\ purge' = [purge EXCEPT ![p] =
         [done |-> TRUE,
          deleted |-> RedisGet(cache, NoToken, now).accessToken,
          issued |-> issued,
          race |-> \E q \in Callers : caller[q].pc \in {"exchange", "store"}]]
    /\ UNCHANGED <<now, ticks, lock, issued>>
    /\ UNCHANGED <<wechatVars, dispatchVars, callbackVars, taskVars, signatureVars, pluginVars,
                   asideVars>>

NextForce ==
    \/ \E p \in Callers : StartGet(p)
    \/ \E p \in Callers : StartForce(p)
    \/ \E p \in Callers : StartSend(p)
    \/ \E p \in Callers : CacheRead(p)
    \/ \E p \in Callers : TryLock(p)
    \/ \E p \in Callers : Backoff(p)
    \/ \E p \in Callers, e \in ExpiresIn : ExchangeOk(p, e)
    \/ \E p \in Callers : ExchangeFail(p)
    \/ \E p \in Callers : StoreToken(p)
    \/ \E p \in Callers : ReleaseLock(p)
    \/ \E p \in Callers : DelTokenNoted(p)
    \/ \E p \in Callers, code \in SendCodes : SendAnswer(p, code)
    \/ Tick(BACKOFF)

SpecForce == InitToken /\ [][NextForce]_vars

Init == InitWechat /\ IdleToken /\ IdleDispatch /\ IdleCallback /\ IdleBeside

Next ==
    \/ \E r \in Reqs, q \in Queries, body \in Bodies :
           \E m \in IF Authentic(q) /\ body = "xml" THEN Messages ELSE {NoMsg} :
               Receive(r, q, body, m)
    \/ \E r \in Reqs : Lookup(r)
    \/ \E r \in Reqs : Bind(r)
    \/ \E r \in Reqs : Unbind(r)

Spec == Init /\ [][Next]_vars

\* the dispatch scenario: GET and POST requests to /wechat arrive and are
\* handled, and the POSTs of the forwarded ones end
NextDispatch ==
    \/ \E r \in Inbound, q \in Queries, e \in Echostrs :
           Arrive(r, "GET", q, e, "none", NoMsg)
    \/ \E r \in Inbound, q \in Queries, body \in Bodies :
           \E m \in IF Authentic(q) /\ body = "xml" THEN DispatchMessages ELSE {NoMsg} :
               Arrive(r, "POST", q, Null, body, m)
    \/ \E r \in Inbound : Handshake(r)
    \/ \E r \in Inbound : Accept(r)
    \/ \E r \in Inbound : Lookup(r)
    \/ \E r \in Inbound : Bind(r)
    \/ \E r \in Inbound : Unbind(r)
    \/ \E r \in Inbound, outcome \in ForwardOutcomes : ForwardSettles(r, outcome)

SpecDispatch == Init /\ [][NextDispatch]_vars

\* the callback scenario: U1 is bound and may unbind, U2 never was bound
InitCallback ==
    /\ bindings = [s \in Subjects |->
                     IF s = "U1" THEN [endpoint |-> E1, token |-> "T1"] ELSE NoBinding]
    /\ req = [r \in Reqs |-> IdleReq]
    /\ posts = [r \in Reqs |-> <<>>]
    /\ IdleToken /\ IdleDispatch /\ IdleCallback /\ IdleBeside

\* the authentic query string
AuthenticQuery ==
    [signature |-> generateSignature(WechatToken, "1700000000", "n1"),
     timestamp |-> "1700000000", nonce |-> "n1"]

NextCallback ==
    \/ \E k \in Callbacks, openid \in Subjects, body \in CallbackBodies :
           Callback(k, openid, body)
    \/ \E k \in Callbacks : CallbackLookup(k)
    \/ \E k \in Callbacks, openid \in Subjects, body \in StreamBodies :
           Stream(k, openid, body)
    \/ \E k \in Callbacks, ok \in BOOLEAN : SendReturns(k, ok)
    \/ \E k \in Callbacks : Delay(k)
    \/ \E m \in {t \in TextMsgs : t.FromUserName = "U1" /\ t.Content = <<"unbind">>} :
           Receive(1, AuthenticQuery, "xml", m)
    \/ Lookup(1)
    \/ Unbind(1)

SpecCallback == InitCallback /\ [][NextCallback]_vars

\* the stream scenario: a runtime sends the requests of a stream for U1 to
\* POST /callback/U1/stream one after the other, each once the one before
\* was answered
MaxStream == 2

\* the chunks of the stream scenario
StreamChunks == {T42, Text("x601", 601, {}, {}), Text("x1450", 1450, {}, {})}

\* the handler of slot k has answered: the request is noted with the content
\* that was given to sendTextMessage for it, and the slot takes the next
\* request
Answered(k) ==
    /\ cb[k].pc = "done" /\ cb[k].route = "stream"
    /\ Len(history) < MaxStream
    /\ history' = Append(history, [body |-> cb[k].body, delivered |-> cb[k].sent # <<>>,
                                   content |-> cb[k].content])
    /\ cb' = [cb EXCEPT ![k] = IdleCb]
    /\ UNCHANGED service
    /\ UNCHANGED <<wechatVars, tokenVars, dispatchVars,
                   forceVars, taskVars, signatureVars, pluginVars>>

NextStream ==
    \/ \E k \in Callbacks :
           \E body \in {b \in StreamBodies : b.chunk \in StreamChunks} :
               Stream(k, "U1", body)
    \/ \E k \in Callbacks, ok \in BOOLEAN : SendReturns(k, ok)
    \/ \E k \in Callbacks : Delay(k)
    \/ \E k \in Callbacks : Answered(k)

SpecStream == InitCallback /\ [][NextStream]_vars

-----------------------------------------------------------------------------
(* doForward on its own *)

NextTask == \E message \in TaskMessages, binding \in BindingValues : Forward(message, binding)

SpecTask == InitToken /\ [][NextTask]_vars

-----------------------------------------------------------------------------
(* the two functions of utils/signature.ts on their own *)

NextSignature ==
    \E token \in SignatureStrings, timestamp \in SignatureStrings, nonce \in SignatureStrings :
        \E presented \in Presented(token, timestamp, nonce) :
            Validate(token, timestamp, nonce, presented)

SpecSignature == InitToken /\ [][NextSignature]_vars

-----------------------------------------------------------------------------
(* the plugin: concurrent POST /webhook requests and their tasks *)

InitPlugin ==
    /\ IdleWechat /\ IdleToken /\ IdleDispatch /\ IdleCallback
    /\ IdleForce /\ IdleTask /\ IdleSignature /\ IdleAside
    /\ authToken \in AuthTokens
    /\ hook = [h \in Hooks |-> IdleHook]

NextPlugin ==
    \/ \E h \in Hooks, authHeader \in HookHeaders, body \in HookBodies :
           Webhook(h, authHeader, body)
    \/ \E h \in Hooks, text \in AgentTexts : AgentReturns(h, text)
    \/ \E h \in Hooks, error \in TaskErrors : TaskFails(h, error)
    \/ \E h \in Hooks, outcome \in ForwardOutcomes : CallbackSettles(h, outcome)
    \/ \E h \in Hooks, event \in AgentTexts \cup {"throws", "timer"} : LoserSettles(h, event)

SpecPlugin == InitPlugin /\ [][NextPlugin]_vars

\* the service scenario: the host calls start() and stop() one after the
\* other, in any order
NextService ==
    \/ start
    \/ \E ok \in BOOLEAN : listen(ok)
    \/ stop
    \/ close

SpecService == InitToken /\ [][NextService]_vars

-----------------------------------------------------------------------------
(* Properties of POST /wechat, checked under Spec *)

SubjectOf(r) == req[r].msg.FromUserName

IsText(m) == m.MsgType = "text" /\ m.Content # <<>>

\* a text 'bind <url> <tok>' whose <url> parses as an absolute URL
IsValidBind(m) == IsText(m) /\ BindMatch(m.Content) /\ m.Content[3] \in AbsoluteUrls

IsUnbind(m) == IsText(m) /\ UnbindMatch(m.Content)

\* request r completes in this step
Completes(r) == req[r].pc # "done" /\ req'[r].pc = "done"

\* C1: tenant isolation of dispatch.  Whenever a request of subject S issues
\* an outbound POST, it is the only POST of that request; it goes to the
\* endpoint of the Binding stored for S at the moment the request looked it
\* up, carries 'Bearer <that Binding's token>', has callback_url
\* <baseUrl>/callback/S and metadata.openid S; and S had a Binding then.
C1_StepIsolated ==
    \A r \in Reqs :
        posts'[r] # posts[r] =>
            /\ bindings[SubjectOf(r)] # NoBinding
            /\ req'[r].binding = bindings[SubjectOf(r)]
            /\ posts'[r] = << [url |-> bindings[SubjectOf(r)].endpoint,
                               Authorization |-> <<"Bearer", bindings[SubjectOf(r)].token>>,
                               callback_url |-> <<BaseUrl, "callback", SubjectOf(r)>>,
                               openid |-> SubjectOf(r),
                               msg_type |-> req[r].msg.MsgType] >>

C1_TenantIsolation == [][C1_StepIsolated]_vars

\* two requests of different subjects, bound to different runtimes, have both
\* been forwarded
C1_Witness ==
    \E r1, r2 \in Reqs :
        /\ SubjectOf(r1) = "U1" /\ SubjectOf(r2) = "U2"
        /\ posts[r1] # <<>> /\ posts[r2] # <<>>
        /\ posts[r1][1].url # posts[r2][1].url
        /\ posts[r1][1].Authorization # posts[r2][1].Authorization

\* C2: rebinding replaces.  A request of a subject that had a Binding when it
\* was looked up, whose text is a valid 'bind <url2> <tok2>', completes with
\* the bind confirmation naming url2 and with {url2, tok2} stored for S.
C2_RebindReplaces ==
    \A r \in Reqs :
        (req[r].pc = "done" /\ IsValidBind(req[r].msg) /\ req[r].binding # NoBinding) =>
            /\ req[r].reply.kind = "bindOk"
            /\ req[r].reply.endpoint = req[r].msg.Content[3]
            /\ getBinding(bindings, SubjectOf(r)) =
                   [endpoint |-> req[r].msg.Content[3], token |-> req[r].msg.Content[5]]

\* C3: binding round trip.  When a valid 'bind <url> <tok>' of a subject that
\* had no Binding completes, a lookup for S returns exactly {url, tok}; when
\* an 'unbind' of a bound subject completes, a lookup for S returns null.
C3_StepRoundTrip ==
    \A r \in Reqs :
        /\ (Completes(r) /\ IsValidBind(req[r].msg) /\ req'[r].binding = NoBinding) =>
               getBinding(bindings', SubjectOf(r)) =
                   [endpoint |-> req[r].msg.Content[3], token |-> req[r].msg.Content[5]]
        /\ (Completes(r) /\ IsUnbind(req[r].msg) /\ req'[r].binding # NoBinding) =>
               getBinding(bindings', SubjectOf(r)) = NoBinding

C3_BindingRoundTrip == [][C3_StepRoundTrip]_vars

\* U1 had no Binding, bound E1 with T1, then unbound: the lookup of the
\* second request read exactly what the first stored, and nothing is left
C3_Witness ==
    /\ MaxRequests >= 2
    /\ req[1].pc = "done" /\ req[1].reply.kind = "bindOk" /\ req[1].binding = NoBinding
    /\ SubjectOf(1) = "U1" /\ SubjectOf(2) = "U1"
    /\ req[2].pc = "done" /\ req[2].reply.kind = "unbindOk"
    /\ req[2].binding = [endpoint |-> E1, token |-> "T1"]
    /\ bindings["U1"] = NoBinding

\* C4 as stated: an 'unbind' of a subject that had no Binding is answered
\* with the unbind confirmation.
C4_UnbindUnboundConfirmed ==
    \A r \in Reqs :
        (req[r].pc = "done" /\ IsUnbind(req[r].msg) /\ req[r].binding = NoBinding) =>
            /\ req[r].reply.status = 200
            /\ req[r].reply.kind = "unbindOk"

\* C4 as amended: an 'unbind' of a subject without Binding completes at the
\* lookup with status 200 and the onboarding reply, the store is not written
\* and still holds no Binding for the subject.
C4_StepUnbindUnbound ==
    \A r \in Reqs :
        (req[r].pc = "getBinding" /\ req'[r] # req[r] /\ IsUnbind(req[r].msg)
            /\ bindings[SubjectOf(r)] = NoBinding) =>
            /\ req'[r].pc = "done"
            /\ req'[r].reply.status = 200
            /\ req'[r].reply.kind = "onboarding"
            /\ bindings' = bindings
            /\ bindings'[SubjectOf(r)] = NoBinding

C4_UnbindUnboundOnboarding == [][C4_StepUnbindUnbound]_vars

C4_Witness ==
    \E r \in Reqs :
        /\ req[r].pc = "done" /\ IsUnbind(req[r].msg) /\ req[r].binding = NoBinding
        /\ req[r].reply.kind = "onboarding"
        /\ bindings[SubjectOf(r)] = NoBinding

\* C10: forwarding requires a Binding.  A request has an outbound POST only
\* if its lookup found a Binding; requests of unbound subjects, events, and
\* bind/unbind commands handled as commands have none.
C10_ForwardNeedsBinding ==
    \A r \in Reqs :
        /\ posts[r] # <<>> =>
               /\ req[r].binding # NoBinding
               /\ req[r].msg.MsgType # "event"
               /\ req[r].reply.kind = "processing"
        /\ (\/ req[r].pc \in {"idle", "getBinding", "setBinding", "deleteBinding"}
            \/ req[r].binding = NoBinding
            \/ req[r].msg.MsgType = "event"
            \/ req[r].reply.kind \in {"bindOk", "unbindOk", "invalidUrl", "onboarding",
                                      "welcome", "empty"}) => posts[r] = <<>>

\* an unbound subject's ordinary text, an image of an unbound subject, a
\* subscribe event and a forwarded message of a bound subject have all occurred
C10_Witness ==
    /\ \E r \in Reqs : /\ req[r].pc = "done" /\ req[r].binding = NoBinding
                       /\ req[r].msg.MsgType \in {"text", "image"}
                       /\ ~BindMatch(req[r].msg.Content)
                       /\ req[r].reply.kind = "onboarding" /\ posts[r] = <<>>
    /\ \E r \in Reqs : posts[r] # <<>> /\ req[r].binding # NoBinding

-----------------------------------------------------------------------------
(* Properties of the token manager and of the send path, under SpecToken *)

Refreshing(p) == caller[p].pc \in {"exchange", "store", "release"}

\* p and q ran getAccessToken() concurrently and both found no valid token
\* at their first read of the cache
ConcurrentColdGets(p, q) ==
    /\ p # q
    /\ caller[p].op = "get" /\ caller[q].op = "get"
    /\ (q \in caller[p].with \/ p \in caller[q].with)
    /\ caller[p].first = "miss" /\ caller[q].first = "miss"

\* C5: concurrent refresh.  Two concurrent getAccessToken() calls that found
\* no valid token cached, both answered with a token inside its margin and
\* within the lock's time to live, made exactly one call to the exchange
\* endpoint and returned the same token.
C5_OneExchange ==
    \A p, q \in Callers :
        (/\ ConcurrentColdGets(p, q)
         /\ caller[p].result = "token" /\ caller[q].result = "token"
         /\ caller[p].ret.margin /\ caller[q].ret.margin
         /\ now < LOCK_TTL) =>
            /\ issued = 1
            /\ caller[p].tok = caller[q].tok

\* C6: refresh mutual exclusion.  At most one refresher is between acquiring
\* the lock and releasing it.
C6_RefreshMutex == Cardinality({p \in Callers : Refreshing(p)}) <= 1

\* C7 as stated: every token getAccessToken() returns, cached or fresh,
\* satisfies now < expiresAt - 600 when it is returned.
C7_MarginAlways ==
    \A p \in Callers : caller[p].ret.viaGet => caller[p].ret.margin

\* C7 as amended: every token getAccessToken() returns from the cache
\* satisfies now < expiresAt - 600 when it is returned (a fresh token is
\* returned unchecked).
C7_MarginFromCache ==
    \A p \in Callers :
        (caller[p].ret.viaGet /\ caller[p].ret.fromCache) => caller[p].ret.margin

\* getAccessToken() has returned a token from the cache to one caller and a
\* fresh token outside the margin to the other
C7_Witness ==
    \E p, q \in Callers :
        /\ caller[p].ret.viaGet /\ caller[p].ret.fromCache /\ caller[p].ret.margin
        /\ caller[q].ret.viaGet /\ ~caller[q].ret.fromCache

\* C8: cache decision.  The step of getAccessToken() that reads the cache
\* returns the cached token, touching neither lock nor exchange endpoint, if
\* one exists with now < expiresAt - 600; in every other case it enters the
\* refresh path.
C8_StepCacheDecision ==
    \A p \in Callers :
        (caller[p].pc = "get" /\ caller'[p] # caller[p]) =>
            IF /\ cache # NoToken /\ now < cache.ttlUntil
               /\ now < cache.expiresAt - TOKEN_REFRESH_THRESHOLD
              THEN /\ caller'[p].ret.tok = cache.accessToken
                   /\ caller'[p].ret.fromCache
                   /\ caller'[p].pc # "lock"
                   /\ lock' = lock /\ issued' = issued /\ cache' = cache
              ELSE caller'[p].pc = "lock"

C8_CacheDecision == [][C8_StepCacheDecision]_vars

\* getAccessToken() has just entered the refresh path although the token it
\* read, cached by a caller that had finished before, expires only 300
\* seconds from now
C8_Witness ==
    \E p, q \in Callers :
        /\ caller[q].pc = "done" /\ caller[q].with = {}
        /\ caller[p].pc = "lock" /\ caller[p].entry = "get" /\ caller[p].with = {}
        /\ cache # NoToken /\ now < cache.ttlUntil
        /\ cache.expiresAt = now + 300

\* C9 as stated: a send whose first answer is 40001 is followed by exactly
\* one forced refresh and exactly one retry.
C9_RetryExactlyOnce ==
    \A p \in Callers :
        (caller[p].op = "send" /\ caller[p].pc = "done"
            /\ caller[p].resps # <<>> /\ caller[p].resps[1] = ERR_TOKEN) =>
            /\ caller[p].forces = 1
            /\ Len(caller[p].resps) = 2

\* C9 as amended: one message causes at most two send calls and at most one
\* forceRefreshToken call; the forced refresh is made iff the first answer is
\* 40001; the retry is made iff that refresh and the retry's token fetch did
\* not throw; a rejected retry ends the call with failure; the call returns
\* success iff its last send was answered 0.
C9_RetryAtMostOnce ==
    \A p \in Callers :
        LET c == caller[p]
            n == Len(c.resps)
            rejected == n >= 1 /\ c.resps[1] = ERR_TOKEN
        IN  c.op = "send" =>
              /\ n <= 2
              /\ c.forces = IF rejected THEN 1 ELSE 0
              /\ n = 2 => rejected
              /\ c.pc = "done" =>
                    /\ (rejected /\ ~c.threw) => n = 2
                    /\ (rejected /\ n = 1) => (c.threw /\ c.result = "false")
                    /\ (n = 2 /\ c.resps[2] # 0) => c.result = "false"
                    /\ c.result = "true" <=> (n >= 1 /\ c.resps[n] = 0)

\* a send was rejected with 40001, the token was refreshed and the retry
\* succeeded
C9_Witness ==
    \E p \in Callers :
        /\ caller[p].op = "send" /\ caller[p].pc = "done"
        /\ caller[p].resps = <<ERR_TOKEN, 0>>
        /\ caller[p].forces = 1
        /\ caller[p].result = "true"

-----------------------------------------------------------------------------
(* Properties of the /wechat routes and of the dispatch, under SpecDispatch *)

\* one of signature, timestamp, nonce is missing from the request's query
MissingParams(r) ==
    \/ inbox[r].query.signature = NoSignature
    \/ inbox[r].query.timestamp = ""
    \/ inbox[r].query.nonce = ""

\* the request's signature is the SHA-1 of its sorted token, timestamp, nonce
SignatureValid(r) ==
    inbox[r].query.signature =
        generateSignature(WechatToken, inbox[r].query.timestamp, inbox[r].query.nonce)

\* C11: decoupled dispatch.  The step that issues the POST of a forwarded
\* message completes the inbound request with status 200 and the
\* 'processing' passive reply while the POST is still pending; the step in
\* which the POST ends, with a 2xx, a non-2xx, a network error or a timeout,
\* finds the request answered and changes neither its answer nor the store,
\* a failure being logged; an answer once given never changes.
C11_StepDecoupled ==
    \A r \in Reqs :
        /\ posts'[r] # posts[r] =>
               /\ req'[r].pc = "done"
               /\ req'[r].reply = buildTextReply(SubjectOf(r), Account, "processing", Null)
               /\ req'[r].reply.status = 200
               /\ settled'[r] = NoOutcome
        /\ settled'[r] # settled[r] =>
               /\ req[r].pc = "done"
               /\ req'[r] = req[r]
               /\ req'[r].reply.status = 200 /\ req'[r].reply.kind = "processing"
               /\ bindings' = bindings /\ posts' = posts
               /\ settled'[r].log = "error" <=> settled'[r].outcome # "2xx"
        /\ req[r].pc = "done" => req'[r] = req[r]

C12_StatusCodes ==
    \A r \in Reqs :
        (inbox[r].method = "POST" /\ req[r].pc = "done") =>
            IF MissingParams(r) THEN req[r].reply.status = 400
            ELSE IF ~SignatureValid(r) THEN req[r].reply.status = 403
            ELSE IF inbox[r].body # "xml" THEN req[r].reply.status = 400
            ELSE req[r].reply.status = 200 /\ req[r].reply.type = "text/xml"

\* C13: per-request ordering.  A POST with a missing parameter or an invalid
\* signature is answered 400 resp. 403 whatever its body is, without the body
\* being parsed, the store read or written, or a POST issued; a request whose
\* body does not parse never reaches the lookup; the lookup runs on the
\* parsed message, the store is written only by a request past its lookup,
\* and a POST is issued only in the step that completes the lookup.
C13_Rejected(r) ==
    inbox[r].method = "POST" /\ (MissingParams(r) \/ ~SignatureValid(r))

C13_StepOrdered ==
    /\ \A r \in Reqs :
        /\ (C13_Rejected(r) /\ req'[r] # req[r]) =>
               /\ req'[r].pc = "done"
               /\ req'[r].reply.status = IF MissingParams(r) THEN 400 ELSE 403
               /\ req'[r].reply.kind =
                      IF MissingParams(r) THEN "Missing parameters" ELSE "Invalid signature"
               /\ req'[r].msg = NoMsg /\ req'[r].binding = NoBinding
               /\ bindings' = bindings /\ posts' = posts
        /\ (inbox[r].method = "POST" /\ inbox[r].body # "xml" /\ req'[r] # req[r]) =>
               (req'[r].pc = "done" /\ req'[r].msg = NoMsg /\ bindings' = bindings)
        /\ req'[r].pc = "getBinding" => req'[r].msg = inbox[r].msg
        /\ posts'[r] # posts[r] =>
               (req[r].pc = "getBinding" /\ req'[r].binding = bindings[SubjectOf(r)])
    /\ bindings' # bindings =>
           \E r \in Reqs : /\ req[r].pc \in {"setBinding", "deleteBinding"}
                           /\ req'[r].pc = "done"

C13_Ordering == [][C13_StepOrdered]_vars

\* a request with an invalid signature and a body that does not parse was
\* answered 403, and another request went all the way to the dispatch
C13_Witness ==
    \E r1, r2 \in Reqs :
        /\ inbox[r1].method = "POST" /\ ~MissingParams(r1) /\ ~SignatureValid(r1)
        /\ inbox[r1].body = "malformed"
        /\ req[r1].pc = "done" /\ req[r1].reply.status = 403
        /\ posts[r2] # <<>>

\* C14: GET /wechat.  A completed handshake has status 400 if a parameter is
\* missing, else 200 with the echostr as its body if the signature is valid,
\* else 403.
C14_Handshake ==
    \A r \in Reqs :
        (inbox[r].method = "GET" /\ req[r].pc = "done") =>
            IF MissingParams(r) THEN req[r].reply.status = 400
            ELSE IF SignatureValid(r)
              THEN req[r].reply.status = 200 /\ req[r].reply.kind = inbox[r].echostr
            ELSE req[r].reply.status = 403

-----------------------------------------------------------------------------
(* Properties of the callback routes and of sendTextMessage, under          *)
(* SpecCallback                                                             *)

\* the handler of slot k has called sendTextMessage
Delivering(k) == cb[k].pc \in {"send", "delay", "done"} /\ cb[k].chunks # <<>>

AllSent(k) ==
    /\ Len(cb[k].results) = Len(cb[k].chunks)
    /\ \A i \in 1..Len(cb[k].results) : cb[k].results[i]

SomeFailed(k) == \E i \in 1..Len(cb[k].results) : ~cb[k].results[i]

\* C15: response of POST /callback/{subjectId}.  The request is answered
\* only after every chunk was given to the send API; the answer is 200
\* {ok:true} exactly when every send succeeded and 500 {ok:false, error}
\* exactly when one of them failed.
C15_CallbackResponse ==
    \A k \in Callbacks :
        cb[k].route = "callback" =>
            /\ cb[k].pc # "done" => cb[k].reply = NoCbReply
            /\ cb[k].pc = "done" =>
                  /\ Len(cb[k].results) = Len(cb[k].chunks)
                  /\ cb[k].reply.status \in {200, 500}
                  /\ (cb[k].reply.status = 200 /\ cb[k].reply.ok) <=> AllSent(k)
                  /\ (cb[k].reply.status = 500 /\ ~cb[k].reply.ok /\ cb[k].reply.error # "")
                        <=> SomeFailed(k)

\* a result sent in two chunks, the first of which failed, was answered 500
C15_Witness ==
    \E k \in Callbacks :
        /\ cb[k].route = "callback" /\ cb[k].pc = "done"
        /\ cb[k].results = <<FALSE, TRUE>>
        /\ cb[k].reply.status = 500

\* C16: callback delivery key.  Whatever the lookup of the Binding answers,
\* the callback handler goes on to deliver, every message it sends is
\* addressed to the subject of the URL path, and no step of a callback
\* handler changes the store.
C16_StepDeliveryKey ==
    \A k \in Callbacks :
        /\ cb'[k] # cb[k] => bindings' = bindings
        /\ (cb[k].pc = "getBinding" /\ cb'[k] # cb[k]) =>
               /\ cb'[k].binding = bindings[cb[k].openid]
               /\ cb'[k].pc = "send"
               /\ Len(cb'[k].sent) = 1
        /\ cb'[k].openid = IF cb[k].pc = "idle" THEN cb'[k].openid ELSE cb[k].openid
        /\ \A i \in 1..Len(cb'[k].sent) : cb'[k].sent[i].touser = cb'[k].openid

C16_DeliveryKey == [][C16_StepDeliveryKey]_vars

\* U1 has unbound, a callback for U1 then found no Binding and was delivered
\* to U1 all the same
C16_Witness ==
    \E k \in Callbacks :
        /\ req[1].pc = "done" /\ req[1].reply.kind = "unbindOk"
        /\ bindings["U1"] = NoBinding
        /\ cb[k].route = "callback" /\ cb[k].openid = "U1" /\ cb[k].binding = NoBinding
        /\ cb[k].pc = "done" /\ cb[k].reply.ok
        /\ cb[k].sent # <<>> /\ cb[k].sent[1].touser = "U1"

\* C17: composition of the callback text.  The content given to
\* sendTextMessage is the result text (the placeholder if empty or absent)
\* resp. the error prefix and the error text (the placeholder if empty or
\* absent), followed by the elapsed-time suffix whenever
\* metadata.thinking_time_ms is present; 1500 gives '1.5s'.
C17_Composition ==
    \A k \in Callbacks :
        (cb[k].route = "callback" /\ Delivering(k)) =>
            LET b == cb[k].body
                base == IF b.success
                          THEN IF b.result \in {Undefined, EmptyText}
                                 THEN <<"DONE_NO_CONTENT">> ELSE b.result.id
                          ELSE <<"FAILED_PREFIX">> \o
                               (IF b.error \in {Undefined, EmptyText}
                                  THEN <<"UNKNOWN_ERROR">> ELSE b.error.id)
                suffix == IF b.metadata.present /\ b.metadata.has_time
                            THEN <<"THINKING_TIME">>
                                 \o toFixed1(b.metadata.thinking_time_ms).id \o <<"s">>
                            ELSE <<>>
            IN  /\ cb[k].content.id = base \o suffix
                /\ b.metadata = Timed(1500) => suffix = <<"THINKING_TIME", "1", ".", "5", "s">>

\* C18: streaming callback.  A request with done=false is answered 200
\* {ok:true, buffered:true} at once and sends nothing; one with done=true
\* gives its chunk to sendTextMessage, addressed to the path subject, and is
\* answered 200 with ok equal to the result of the delivery.
C18_Stream ==
    \A k \in Callbacks :
        cb[k].route = "stream" =>
            IF cb[k].body.done
              THEN /\ cb[k].content = cb[k].body.chunk
                   /\ cb[k].sent # <<>> /\ Len(cb[k].sent) <= Len(cb[k].chunks)
                   /\ \A i \in 1..Len(cb[k].sent) :
                          /\ cb[k].sent[i].touser = cb[k].openid
                          /\ cb[k].sent[i].n = i
                   /\ cb[k].pc # "done" => cb[k].reply = NoCbReply
                   /\ cb[k].pc = "done" =>
                          /\ cb[k].reply.status = 200 /\ ~cb[k].reply.buffered
                          /\ cb[k].reply.ok <=> AllSent(k)
              ELSE /\ cb[k].pc = "done" /\ cb[k].sent = <<>> /\ cb[k].results = <<>>
                   /\ cb[k].reply = [status |-> 200, ok |-> TRUE, buffered |-> TRUE,
                                     error |-> ""]

\* a final chunk whose delivery failed was answered 200 {ok:false}
C18_Witness ==
    \E k \in Callbacks :
        /\ cb[k].route = "stream" /\ cb[k].body.done /\ cb[k].pc = "done"
        /\ SomeFailed(k)
        /\ cb[k].reply.status = 200 /\ ~cb[k].reply.ok

\* C19: length ceiling.  Every message given to the send API is at most 600
\* units long, its '(n/total) ' marker included, and a content of 1450 units
\* without newlines is sent as 3 messages.
C19_LengthCeiling ==
    \A k \in Callbacks :
        /\ \A i \in 1..Len(cb[k].sent) : cb[k].sent[i].length <= 600
        /\ (Delivering(k) /\ cb[k].content.len = 1450 /\ cb[k].content.nl = {}) =>
               Len(cb[k].chunks) = 3

\* C20: split-point rule.  The chunks are consecutive pieces of the content
\* with nothing but whitespace dropped between them; a remainder of at most
\* 600 units is the last chunk; a longer one is split at its last newline
\* among the positions 300..600 if there is one, else at its last space
\* among them if there is one, else at 600.
C20_SplitRule ==
    \A k \in Callbacks :
        Delivering(k) =>
            LET c == cb[k].content
                ch == cb[k].chunks
                ws == c.nl \cup c.sp
            IN  /\ ch[1].from = 0
                /\ \A j \in 1..Len(ch) :
                     LET s == ch[j].from
                         cut == ch[j].to
                         N == {p \in c.nl : s + 300 <= p /\ p <= s + 600}
                         S == {p \in c.sp : s + 300 <= p /\ p <= s + 600}
                     IN  IF c.len - s <= 600 THEN cut = c.len /\ j = Len(ch)
                         ELSE /\ cut = IF N # {} THEN Max(N)
                                       ELSE IF S # {} THEN Max(S) ELSE s + 600
                              /\ cut - s >= 300 /\ cut - s <= 600
                              /\ \A p \in c.nl : ~(cut < p /\ p <= s + 600)
                              /\ IF j < Len(ch)
                                   THEN /\ cut <= ch[j + 1].from
                                        /\ \A p \in cut..(ch[j + 1].from - 1) : p \in ws
                                        /\ ch[j + 1].from \notin ws
                                   ELSE \A p \in cut..(c.len - 1) : p \in ws

\* contents split at a newline although a space lies nearer the ceiling, at
\* a space because the newline lies below the midpoint, and by a hard cut
\* have been delivered
C20_Witness ==
    \E k \in Callbacks :
        /\ cb[k].pc = "done"
        /\ cb[k].content.id = <<"newline100-space580">>
        /\ cb[k].chunks = << [from |-> 0, to |-> 580], [from |-> 581, to |-> 900] >>
        /\ chunksOf(Text("newline450-space500", 900, {450}, {500}))
               = << [from |-> 0, to |-> 450], [from |-> 451, to |-> 900] >>
        /\ chunksOf(Text("newline100-space200", 900, {100}, {200}))
               = << [from |-> 0, to |-> 600], [from |-> 600, to |-> 900] >>

\* C21: chunk sending protocol.  The messages of one sendTextMessage call
\* are the chunks in index order; a chunk is given to the send API only when
\* the sends of all earlier chunks have returned; a failed send does not
\* stop the later ones, so the call ends only when every chunk was sent; and
\* it then returns success iff every send succeeded.
C21_StepProtocol ==
    \A k \in Callbacks :
        /\ Len(cb'[k].sent) > Len(cb[k].sent) =>
               /\ Len(cb'[k].sent) = Len(cb[k].sent) + 1
               /\ Len(cb[k].results) = Len(cb[k].sent)
               /\ Len(cb'[k].sent) <= Len(cb'[k].chunks)
               /\ LET n == Len(cb'[k].sent)
                  IN  /\ cb'[k].sent[n].n = n
                      /\ cb'[k].sent[n].from = cb'[k].chunks[n].from
                      /\ cb'[k].sent[n].to = cb'[k].chunks[n].to
        /\ Len(cb'[k].results) > Len(cb[k].results) =>
               /\ Len(cb'[k].results) = Len(cb[k].sent)
               /\ cb'[k].pc = IF Len(cb[k].sent) < Len(cb[k].chunks) THEN "delay" ELSE "done"
        /\ (cb[k].pc # "done" /\ cb'[k].pc = "done" /\ cb'[k].chunks # <<>>) =>
               /\ Len(cb'[k].results) = Len(cb'[k].chunks)
               /\ cb'[k].reply.ok <=> (\A i \in 1..Len(cb'[k].results) : cb'[k].results[i])

C21_ChunkProtocol == [][C21_StepProtocol]_vars

\* a content of three chunks whose second send failed had its third chunk
\* sent all the same, and the call returned failure
C21_Witness ==
    \E k \in Callbacks :
        /\ cb[k].pc = "done" /\ Len(cb[k].chunks) = 3
        /\ cb[k].results = <<TRUE, FALSE, TRUE>>
        /\ Len(cb[k].sent) = 3 /\ cb[k].sent[3].n = 3
        /\ ~cb[k].reply.ok

\* C26: a failed refresh leaves no trace.  When the exchange answers an
\* errcode or throws, the refresher goes to its finally block without
\* touching the token cache; the lock is deleted in the step that lets the
\* error through, and the token function throws to its caller.
C26_StepFailedRefresh ==
    \A p \in Callers :
        /\ (caller[p].pc = "exchange" /\ caller'[p].fail) =>
               /\ caller'[p].pc = "release"
               /\ cache' = cache
               /\ ~caller'[p].threw
        /\ (caller[p].pc = "release" /\ caller[p].fail /\ caller'[p] # caller[p]) =>
               /\ lock' = NoLock
               /\ cache' = cache
               /\ caller'[p].threw
               /\ caller'[p].pc = "done"
               /\ caller'[p].result = IF caller[p].op = "send" THEN "false" ELSE "throw"
        /\ caller'[p].threw /\ ~caller[p].threw => caller[p].pc = "release"

C26_FailedRefresh == [][C26_StepFailedRefresh]_vars

\* a refresh failed next to a token another refresher had cached: the error
\* reached the caller, the cached token is still there and the lock is free
C26_Witness ==
    \E p \in Callers :
        /\ caller[p].threw /\ caller[p].result = "throw"
        /\ cache # NoToken
        /\ lock = NoLock

-----------------------------------------------------------------------------
(* Properties of doForward, of the signature functions and of the plugin *)

\* C22: the message-kind to task mapping is total.  Whatever the kind and
\* whichever optional fields are absent or empty, the task doForward puts
\* in its payload is a non-empty string.
C22_TaskTotal ==
    envelope.built => envelope.task.type = "string" /\ envelope.task.v # <<>>

\* C23: the statuses of POST /webhook.  401 when a token is configured and
\* the Authorization header is not exactly 'Bearer <token>', whatever the
\* payload; else 400 when task or callback_url is missing or empty or the
\* callback_url does not parse; else 202 'accepted'; a task is started with
\* the 202 only, and the reply does not wait for it.
C23_WebhookStatuses ==
    \A h \in Hooks :
        hook[h].pc # "idle" =>
            LET c == hook[h]
            IN  IF authToken # "" /\ c.authorization # Bearer(authToken)
                  THEN c.reply.status = 401 /\ ~c.started
                ELSE IF \/ ~Truthy(c.body.task) \/ ~Truthy(c.body.callback_url)
                        \/ ~ParsesAsUrl(c.body.callback_url)
                  THEN c.reply.status = 400 /\ ~c.started
                ELSE c.reply = [status |-> 202, body |-> "accepted"] /\ c.started

\* C24: one callback per accepted task.  A request answered 202 whose task
\* has ended made exactly one POST to its callback_url, success with the
\* agent's text or failure with an error text; and no request ever makes a
\* second POST, whatever became of the first.
C24_OneCallback ==
    \A h \in Hooks :
        /\ Len(hook[h].callbacks) <= 1
        /\ hook[h].reply.status # 202 => hook[h].callbacks = <<>>
        /\ (hook[h].reply.status = 202 /\ hook[h].pc \in {"callback", "done"}) =>
               /\ Len(hook[h].callbacks) = 1
               /\ hook[h].callbacks[1].url = hook[h].body.callback_url
               /\ LET payload == hook[h].callbacks[1].payload
                  IN  IF payload.success THEN payload.result \in AgentTexts
                      ELSE payload.error \in TaskErrors

\* C25: signature round trip.  validateSignature accepts what
\* generateSignature makes of the same token, timestamp and nonce, and
\* accepts nothing else; the signature is the SHA-1 digest of the three
\* strings put one after the other in ascending code-unit order.
C25_RoundTrip ==
    sig.called =>
        /\ sig.roundTrip
        /\ sig.valid <=> sig.presented = sig.generated
        /\ \E arr \in Perms3(sig.token, sig.timestamp, sig.nonce) :
               /\ LexLeq(Units(arr[1]), Units(arr[2]))
               /\ LexLeq(Units(arr[2]), Units(arr[3]))
               /\ sig.generated = Sha1(Units(arr[1]) \o Units(arr[2]) \o Units(arr[3]))

\* three strings given out of order: the signature made of them was accepted
\* and the digest of the three in the order given was refused
C25_Witness ==
    /\ sig.called
    /\ sig.token = "wxtoken" /\ sig.timestamp = "1700000000" /\ sig.nonce = "B"
    /\ sig.presented = Sha1(Units("wxtoken") \o Units("1700000000") \o Units("B"))
    /\ ~sig.valid
    /\ sig.roundTrip

-----------------------------------------------------------------------------
(* Properties of the token manager under forced refreshes, waiting and      *)
(* crashes                                                                  *)

\* a call of getAccessToken (from outside, or the retry after a backoff)
\* returns a token in this step
GetReturns(q) ==
    /\ caller[q].pc \in {"get", "release"}
    /\ caller[q].entry = "get"
    /\ caller'[q] # caller[q]
    /\ caller'[q].pc # "lock"
    /\ ~caller'[q].threw

\* C27: getAccessToken under contention.  With an exchange endpoint that
\* answers and lock keys that expire, every getAccessToken call of a process
\* that stays alive returns or throws in the end, also when another
\* refresher holds the lock or died with it.
C27_Termination ==
    \A p \in Callers :
        (caller[p].pc \notin {"idle", "done", "crashed"})
            ~> (caller[p].pc \in {"done", "crashed"})

\* a refresher died with the lock; the other caller, whose exchange call
\* followed, got its token when the lock's 30 s were over
C27_Witness ==
    \E p \in Callers, q \in Callers :
        /\ caller[q].pc = "crashed" /\ caller[q].call = 1
        /\ lock.owner # q
        /\ caller[p].pc = "done" /\ caller[p].result = "token"
        /\ caller[p].ret.tok = 2 /\ ~caller[p].ret.fromCache
        /\ now >= LOCK_TTL

\* C28 as stated: once a forceRefreshToken call has deleted the cached token,
\* a getAccessToken call that returns later does not return the deleted
\* token from the cache, and what it returns comes from an exchange call
\* made after the deletion.
C28_StepForcedFresh ==
    \A p \in Callers, q \in Callers :
        (purge[p].done /\ GetReturns(q)) =>
            /\ caller'[q].ret.fromCache => caller'[q].ret.tok # purge[p].deleted
            /\ caller'[q].ret.tok > purge[p].issued

C28_ForcedFresh == [][C28_StepForcedFresh]_vars

\* C28, amended: the DEL leaves no token in the cache and takes the forcing
\* call to the refresh without a read of the cache; a getAccessToken call
\* that returns later does not return the deleted token from the cache;
\* and what it reads from the cache comes from an exchange call made after
\* the deletion unless a refresh was under way when the token was deleted.
C28_StepForcedInvalidation ==
    /\ \A p \in Callers :
           (~purge[p].done /\ purge'[p].done) =>
               /\ cache' = NoToken
               /\ caller'[p].pc = "lock"
    /\ \A p \in Callers, q \in Callers :
           (purge[p].done /\ GetReturns(q) /\ caller'[q].ret.fromCache) =>
               /\ caller'[q].ret.tok # purge[p].deleted
               /\ ~purge[p].race => caller'[q].ret.tok > purge[p].issued

C28_ForcedInvalidation == [][C28_StepForcedInvalidation]_vars

\* a send was refused with the cached token, the token was deleted, and the
\* getAccessToken of the retry returned a newer token from the cache
C28_Witness ==
    \E p \in Callers :
        /\ purge[p].done /\ purge[p].deleted > 0
        /\ caller[p].op = "send" /\ caller[p].pc = "post"
        /\ caller[p].ret.viaGet /\ caller[p].ret.fromCache
        /\ caller[p].ret.tok > purge[p].deleted

-----------------------------------------------------------------------------
(* Concurrent bind commands of one subject *)

\* the requests of subject s that have completed their setBinding
BindsDone(s) ==
    {r \in Reqs : /\ req[r].pc = "done"
                  /\ req[r].reply.kind = "bindOk"
                  /\ req[r].msg.FromUserName = s}

\* the pair a bind command carries
PairOf(r) == [endpoint |-> req[r].msg.Content[3], token |-> req[r].msg.Content[5]]

\* subject s has completed an unbind
UnbindDone(s) ==
    \E r \in Reqs : /\ req[r].pc = "done"
                    /\ req[r].reply.kind = "unbindOk"
                    /\ req[r].msg.FromUserName = s

\* C29: once two bind commands of one subject, both issued while the subject
\* was unbound, have written (and the subject has not unbound), the store
\* holds for the subject the endpoint and token of one of these commands,
\* never the endpoint of one with the token of the other; the store holds one
\* value per subject by construction (a function of the subject).
C29_LastWriterWins ==
    \A s \in Subjects :
        (Cardinality(BindsDone(s)) >= 2 /\ ~UnbindDone(s))
            => /\ bindings[s] # NoBinding
               /\ \E r \in BindsDone(s) : bindings[s] = PairOf(r)

\* two binds of one subject with different pairs have both written, the
\* second one's pair is stored
C29_Witness ==
    \E s \in Subjects : \E r1, r2 \in BindsDone(s) :
        /\ r1 # r2
        /\ req[r1].binding = NoBinding /\ req[r2].binding = NoBinding
        /\ PairOf(r1).endpoint # PairOf(r2).endpoint
        /\ PairOf(r1).token # PairOf(r2).token
        /\ bindings[s] = PairOf(r2)
        /\ ~UnbindDone(s)

-----------------------------------------------------------------------------
(* Bind with an endpoint that is no absolute URL *)

\* the text of request r has the shape of a bind command whose endpoint does
\* not parse as an absolute URL
InvalidBind(m) ==
    /\ m.MsgType = "text" /\ m.Content # <<>>
    /\ BindMatch(m.Content)
    /\ m.Content[3] \notin AbsoluteUrls

C30_StepInvalidBind ==
    \A r \in Reqs :
        (/\ req[r].pc = "getBinding"
         /\ req'[r].pc # "getBinding"
         /\ InvalidBind(req[r].msg))
            => /\ bindings' = bindings
               /\ posts' = posts
               /\ req'[r].pc = "done"
               /\ req'[r].reply.status = 200
               /\ req'[r].reply.kind = "invalidUrl"

\* C30: a text of the shape 'bind <endpoint> <token>' whose endpoint is no
\* absolute URL leaves the store unchanged, forwards nothing and is answered
\* with the 200 passive reply that carries the validation error.
C30_InvalidBind == [][C30_StepInvalidBind]_vars

-----------------------------------------------------------------------------
(* At-most-once dispatch *)

C31_StepAtMostOnce ==
    \A r \in Reqs :
        /\ Len(posts'[r]) <= 1
        \* once the POST has ended, nothing more happens for the request
        /\ settled[r] # NoOutcome => posts'[r] = posts[r] /\ req'[r] = req[r]
        \* the end of the POST is only recorded: no new POST, no change of any
        \* reply, no message sent to a subject
        /\ settled'[r] # settled[r]
             => /\ posts' = posts /\ req' = req
                /\ cb' = cb /\ caller' = caller
                /\ req[r].pc = "done" /\ req[r].reply.kind = "processing"

\* C31: an accepted POST /wechat message causes at most one POST to the
\* runtime endpoint; when that POST fails, is rejected or times out, it is
\* not issued again and no message goes to the user, whose only answer is
\* the placeholder reply.
C31_AtMostOnce == [][C31_StepAtMostOnce]_vars

\* a forward has failed; its request keeps the placeholder and its one POST
C31_Witness ==
    \E r \in Reqs :
        /\ settled[r].outcome \in {"non2xx", "network", "timeout"}
        /\ Len(posts[r]) = 1
        /\ req[r].pc = "done" /\ req[r].reply.kind = "processing"

-----------------------------------------------------------------------------
(* Task timeout in the plugin *)

TimeoutCallback(h) ==
    [url |-> hook[h].body.callback_url,
     payload |-> [success |-> FALSE, result |-> "", error |-> "Task timeout"]]

\* the timer of task h fired before callChatRpc settled
TimedOut(h) ==
    \E i \in 1..Len(hook[h].callbacks) : hook[h].callbacks[i].payload.error = "Task timeout"

\* C32: a task whose timer fires before the agent call has settled gets the
\* one failure callback with error 'Task timeout', sent to its callback_url;
\* whatever the agent call produces afterwards, no second callback and no
\* success callback is sent for the task.
C32_TaskTimeout ==
    \A h \in Hooks :
        /\ TimedOut(h) => hook[h].callbacks = <<TimeoutCallback(h)>>
        /\ hook[h].late # "none" => Len(hook[h].callbacks) = 1

\* the agent answered a text after the timeout callback of its task
C32_Witness ==
    \E h \in Hooks :
        /\ hook[h].late \in AgentTexts
        /\ hook[h].callbacks = <<TimeoutCallback(h)>>
        /\ hook[h].pc = "done"

-----------------------------------------------------------------------------
(* Streamed content *)

\* the first request of the stream that request i of the history belongs to:
\* the one after the latest request before i that had done=true
StreamStart(i) ==
    LET ends == {j \in 1..(i - 1) : history[j].body.done}
    IN  IF ends = {} THEN 1 ELSE Max(ends) + 1

\* the chunks of requests from..to put one after the other
RECURSIVE Accumulated(_, _)
Accumulated(from, to) ==
    IF from > to THEN EmptyText
    ELSE Cat(history[from].body.chunk, Accumulated(from + 1, to))

\* C33: the message delivered at the request with done=true is the content
\* of every chunk of its stream in order; nothing is delivered before.
C33_StreamAccumulated ==
    \A i \in 1..Len(history) :
        IF history[i].body.done
          THEN /\ history[i].delivered
               /\ history[i].content = Accumulated(StreamStart(i), i)
          ELSE ~history[i].delivered

-----------------------------------------------------------------------------
(* The splitting loop of sendTextMessage *)

\* C34: for a content longer than 600 units the splitting loop ends: every
\* chunk but the last has between 300 and 600 units, so every iteration
\* moves the start of the remainder forward by at least 300, and there are
\* at most ceil(length / 300) chunks; the last chunk has at most 600 units.
C34_ChunkingBounded ==
    \A k \in Callbacks :
        (Delivering(k) /\ cb[k].content.len > MAX_LENGTH) =>
            LET ch == cb[k].chunks
                len == cb[k].content.len
            IN  /\ Len(ch) >= 1
                /\ 300 * Len(ch) < len + 300
                /\ ch[Len(ch)].to - ch[Len(ch)].from <= MAX_LENGTH
                /\ \A j \in 1..(Len(ch) - 1) :
                     /\ ch[j].to - ch[j].from >= 300
                     /\ ch[j].to - ch[j].from <= MAX_LENGTH
                     /\ ch[j + 1].from >= ch[j].from + 300
                     /\ ch[j + 1].from < len

\* a content of 1450 units with a space every 50 was split in three chunks
\* at spaces, and one whose remainder is whitespace only in a single chunk
C34_Witness ==
    \E k \in Callbacks :
        /\ Delivering(k)
        /\ cb[k].content.id = <<"words1450">>
        /\ Len(cb[k].chunks) = 3
        /\ cb[k].chunks[1].to - cb[k].chunks[1].from < MAX_LENGTH
        /\ Len(chunksOf(Text("x600-spaces5", 605, {}, {600, 601, 602, 603, 604}))) = 1

-----------------------------------------------------------------------------
(* Two senders refused with the same token *)

\* the DEL of the forceRefreshToken call of sender p takes effect
ForcedDelete(p) ==
    /\ caller[p].op = "send"
    /\ caller[p].pc = "deltok" /\ caller'[p].pc # "deltok"

C35_StepOnlyRejected ==
    \A p \in Callers :
        LET cached == RedisGet(cache, NoToken, now).accessToken
        IN  (ForcedDelete(p) /\ cached # 0 /\ cached # caller[p].tok) =>
                /\ cache' = cache
                /\ caller'[p].pc # "lock"

\* C35: the forceRefreshToken call of a sender whose token was refused
\* deletes the cached token only when it is the refused one; a newer token
\* that another refresh has stored meanwhile is kept and used, without a
\* further call of the credential-exchange endpoint.
C35_OnlyRejected == [][C35_StepOnlyRejected]_vars

-----------------------------------------------------------------------------
(* The DEL of the refresh lock *)

C36_StepReleaseOwn ==
    \A p \in Callers :
        (caller[p].pc = "release" /\ caller'[p].pc # "release" /\ LockHeld(lock, now))
            => lock.owner = p

\* C36: the DEL of the lock key at the end of refreshAccessToken removes
\* only a lock that this refresher acquired and that has not expired; a lock
\* that another refresher holds is never removed by it.
C36_ReleaseOwn == [][C36_StepReleaseOwn]_vars

-----------------------------------------------------------------------------
(* Callbacks and the tasks they answer *)

\* the bridge has dispatched a task for subject s: a POST that carries the
\* callback URL of s
Dispatched(s) ==
    \E r \in Reqs : \E i \in 1..Len(posts[r]) :
        posts[r][i].callback_url = <<BaseUrl, "callback", s>>

\* C37: a message is given to the send API for subject S by a callback
\* route only when the bridge has dispatched a task for S before; a
\* callback request for S without such a dispatch delivers nothing.
C37_Correlated ==
    \A k \in Callbacks : cb[k].sent # <<>> => Dispatched(cb[k].openid)

-----------------------------------------------------------------------------
(* Frame of the Credential Store *)

\* request r takes a step
Steps(r) == req'[r] # req[r]

\* request r, a valid bind of a subject that was unbound when its Binding
\* was looked up, writes its Binding in this step
WritesBind(r) ==
    /\ req[r].pc = "setBinding" /\ Completes(r)
    /\ IsValidBind(req[r].msg) /\ req[r].binding = NoBinding

\* request r, an unbind of a subject that was bound when its Binding was
\* looked up, deletes the Binding in this step
WritesUnbind(r) ==
    /\ req[r].pc = "deleteBinding" /\ Completes(r)
    /\ IsUnbind(req[r].msg) /\ req[r].binding # NoBinding

C38_StepFrame ==
    \A r \in Reqs :
        Steps(r) =>
            /\ \A b \in Subjects : b # req'[r].msg.FromUserName => bindings'[b] = bindings[b]
            /\ ~(WritesBind(r) \/ WritesUnbind(r)) => bindings' = bindings

\* C38: a step of a POST /wechat request of subject A leaves the Binding of
\* every other subject as it was; and the store changes only in the step in
\* which a valid bind of a subject found unbound, or an unbind of a subject
\* found bound, writes.
C38_StoreFrame == [][C38_StepFrame]_vars

\* U1 has unbound and U2 has bound while the other subject's request was in
\* progress, and each left the other's Binding alone
C38_Witness ==
    \E r1, r2 \in Reqs :
        /\ SubjectOf(r1) = "U1" /\ SubjectOf(r2) = "U2"
        /\ req[r1].pc = "done" /\ req[r1].reply.kind = "unbindOk"
        /\ req[r2].pc = "done" /\ req[r2].reply.kind = "bindOk"
        /\ bindings["U1"] = NoBinding
        /\ bindings["U2"] = PairOf(r2)

-----------------------------------------------------------------------------
(* Lifecycle of the plugin's server *)

\* C39: between the calls of the service, the status reported is 'running'
\* iff a server made by the plugin is listening; and when the call that
\* returned last is stop(), no server made by the plugin is listening.
C39_Lifecycle ==
    service.call = "none" =>
        /\ status = "running" <=> service.listening # {}
        /\ (service.calls # <<>> /\ service.calls[Len(service.calls)] = "stop")
               => service.listening = {}

-----------------------------------------------------------------------------
(* Addresses of the passive replies *)

PassiveKinds == {"welcome", "onboarding", "bindOk", "invalidUrl", "unbindOk", "processing"}

\* C40: every XML passive reply of POST /wechat is addressed to the sender
\* of the request it answers: its ToUserName is the inbound FromUserName and
\* its FromUserName the inbound ToUserName; and a request answered with 200
\* text/xml carries one of the six passive texts.
C40_ReplyAddressing ==
    \A r \in Reqs :
        /\ req[r].reply.type = "text/xml" =>
               /\ req[r].reply.kind \in PassiveKinds
               /\ req[r].reply.status = 200
        /\ req[r].reply.kind \in PassiveKinds =>
               /\ req[r].pc = "done"
               /\ req[r].reply.type = "text/xml"
               /\ req[r].reply.ToUserName = req[r].msg.FromUserName
               /\ req[r].reply.FromUserName = req[r].msg.ToUserName
               /\ req[r].reply.ToUserName \in Subjects

\* requests of the two subjects, handled side by side, were each answered
\* to their own sender
C40_Witness ==
    \E r1, r2 \in Reqs :
        /\ req[r1].msg.FromUserName = "U1" /\ req[r2].msg.FromUserName = "U2"
        /\ req[r1].reply.kind = "processing" /\ req[r1].reply.ToUserName = "U1"
        /\ req[r2].reply.kind = "bindOk" /\ req[r2].reply.ToUserName = "U2"
        /\ req[r1].reply.FromUserName = Account /\ req[r2].reply.FromUserName = Account

=============================================================================
